---- MODULE Spec2Model ----
(***************************************************************************)
(* Model of the host-object property engine (DispatchEx) found in          *)
(* src/dlls/gdi32/dibdrv/graphics.c, lines 771-1561: property slots, the   *)
(* growable property table, built-in lookup, prototype resolution, the     *)
(* get/put/invoke/enumerate dispatch and reference-counted lifetime.       *)
(*                                                                         *)
(* Conventions                                                             *)
(*  - objects live in `heap`, indexed by an address 1..NObj; address 0 is  *)
(*    the NULL pointer.  A freed address may be handed out again by        *)
(*    create_dispex, so a dangling pointer may alias a later object.       *)
(*  - DISPIDs are the 0-based indices of the C code; slot id lives at      *)
(*    props[id + 1] of the TLA+ sequence.                                  *)
(*  - a name is a sequence of character codes >= 1; NULLW stands for the   *)
(*    NULL string pointer.                                                 *)
(*  - operators that model C functions take the heap and return a record   *)
(*    holding the new heap and the function's results.  The result         *)
(*    "FAULT" stands for an access the C code performs on invalid memory   *)
(*    (NULL string, freed object, slot outside the table, runaway          *)
(*    recursion).                                                          *)
(***************************************************************************)
EXTENDS Integers, Sequences, FiniteSets, TLC

VARIABLES
    heap,      \* address -> DispatchEx object (or a free block)
    held,      \* address -> number of references the host holds
    ctx_ref,   \* references the objects hold on the script context
    fault,     \* TRUE once a call has touched invalid memory
    budget,    \* number of calls the host may still make
    lookup,    \* a class's descriptor array, and the last name looked up in it
    callers    \* thread -> where it is in an AddRef or Release call on object 1

vars == <<heap, held, ctx_ref, fault, budget, lookup, callers>>

(***************************** bounds **************************************)
NObj == 3
MaxHeld == 2
MaxSteps == 3
StaleSteps == 5
MaxProps == 3
NThreads == 3
MaxRefs == 3
MaxArgs == 2

Objs == 1 .. NObj
NULL == 0

(***************************** names ***************************************)
NULLW == <<0>>
nm_a == <<1>>
nm_greet == <<2, 1>>
nm_len == <<2, 2>>
prototypeW == <<3>>

Names == {nm_a, nm_greet, nm_len, prototypeW}

(***************************** values **************************************)
VT_EMPTY == "VT_EMPTY"
VT_I4 == "VT_I4"
VT_DISPATCH == "VT_DISPATCH"

VEmpty == [vt |-> VT_EMPTY, val |-> 0]
VInt(n) == [vt |-> VT_I4, val |-> n]
VDisp(o) == [vt |-> VT_DISPATCH, val |-> o]

(***************************** flags and modes *****************************)
\* A DWORD of flags is the set of its bits, each bit named by its hexadecimal
\* value, so that tests such as (prop->flags & DISPATCH_METHOD) keep their
\* meaning: bit 0x0001 is the lowest bit of the argument count of a built-in.
PROPF_METHOD == "0x0100"
PROPF_ENUM == "0x0200"
ARG_BIT0 == "0x0001"

DISPATCH_METHOD == "0x0001"
DISPATCH_PROPERTYGET == "0x0002"
DISPATCH_PROPERTYPUT == "0x0004"
DISPATCH_PROPERTYPUTREF == "0x0008"
DISPATCH_CONSTRUCT == "0x4000"

fdexNameCaseSensitive == "fdexNameCaseSensitive"
fdexNameEnsure == "fdexNameEnsure"
fdexNameImplicit == "fdexNameImplicit"
fdexNameCaseInsensitive == "fdexNameCaseInsensitive"

DISPID_VALUE == 0
DISPID_STARTENUM == -1
DISPID_PROPERTYPUT == -3
DISPID_THIS == -613

S_OK == "S_OK"
S_FALSE == "S_FALSE"
E_OUTOFMEMORY == "E_OUTOFMEMORY"
E_NOTIMPL == "E_NOTIMPL"
E_FAIL == "E_FAIL"
E_INVALIDARG == "E_INVALIDARG"
DISP_E_MEMBERNOTFOUND == "DISP_E_MEMBERNOTFOUND"
DISP_E_UNKNOWNNAME == "DISP_E_UNKNOWNNAME"
DISP_E_PARAMNOTOPTIONAL == "DISP_E_PARAMNOTOPTIONAL"
DISP_E_EXCEPTION == "DISP_E_EXCEPTION"
FAULT == "FAULT"

FAILED(hres) == hres \notin {S_OK, S_FALSE}

(***************************** property slots ******************************)
PROP_VARIANT == "PROP_VARIANT"
PROP_BUILTIN == "PROP_BUILTIN"
PROP_PROTREF == "PROP_PROTREF"
PROP_DELETED == "PROP_DELETED"

NOPROP == -1

\* struct _dispex_prop_t; the union u is kept as three fields, only the one
\* selected by `type` is meaningful
dispex_prop_t(name, type, flags) ==
    [name |-> name, type |-> type, flags |-> flags, var |-> VEmpty, p |-> NOPROP, ref |-> 0]

(***************************** classes *************************************)
\* builtin_info_t: value_prop (p = 0), the name-sorted props array
\* (p = 1 .. props_cnt), the on_put hook and the destructor hook
dispex_info ==
    [value_prop |-> [invoke |-> FALSE, flags |-> {}],
     props |-> <<>>,
     on_put |-> FALSE,
     destructor |-> FALSE]

\* a class with a default value member, one method and one accessor
greeter_info ==
    [value_prop |-> [invoke |-> TRUE, flags |-> {PROPF_METHOD}],
     props |-> << [name |-> nm_greet, flags |-> {PROPF_METHOD}],
                  [name |-> nm_len, flags |-> {}] >>,
     on_put |-> TRUE,
     destructor |-> TRUE]

builtin_infos == << dispex_info, greeter_info >>

Classes == 1 .. Len(builtin_infos)

builtin_prop(cls, p) ==
    IF p = 0 THEN builtin_infos[cls].value_prop ELSE builtin_infos[cls].props[p]

(***************************** objects *************************************)
\* struct DispatchEx; alloc_size is the number of slots the block behind
\* props really has (what heap_alloc / heap_realloc last returned)
FreeBlock ==
    [alive |-> FALSE, ref |-> 0, builtin_info |-> 1, prototype |-> NULL,
     props |-> <<>>, buf_size |-> 0, alloc_size |-> 0]

prop_cnt(h, This) == Len(h[This].props)

\* an access through a pointer to an object is defined only while the block
\* is allocated
Valid(h, o) == o \in Objs /\ h[o].alive

SetProp(h, This, id, prop) ==
    [h EXCEPT ![This].props[id + 1] = prop]

Prop(h, This, id) == h[This].props[id + 1]

(***************************** allocation **********************************)
\* outcome of the allocator during one call: every request succeeds, or the
\* array growth fails, or the copy of a name fails
\* With(v, F) is F(v), the value v computed once and then named: the result
\* of a call that the text after it inspects several times
With(v, F(_)) == CHOOSE y \in {F(x) : x \in {v}} : TRUE

MEM_OK == "MEM_OK"
NO_REALLOC == "NO_REALLOC"
NO_STRDUP == "NO_STRDUP"

\* heap_strdupW: NULL for a NULL string or when the allocation fails
heap_strdupW(name, mem) ==
    IF name = NULLW \/ mem = NO_STRDUP THEN NULLW ELSE name

(***************************** strings *************************************)
RECURSIVE strcmpW(_, _)
\* difference of the first two characters that differ, 0 past either end
strcmpW(str1, str2) ==
    LET c1 == IF str1 = <<>> THEN 0 ELSE Head(str1)
        c2 == IF str2 = <<>> THEN 0 ELSE Head(str2)
    IN  IF c1 # 0 /\ c1 = c2 THEN strcmpW(Tail(str1), Tail(str2)) ELSE c1 - c2

(***************************** lookup by identifier ************************)
prop_to_id(This, prop) == prop

\* a plausible slip: only the range of the identifier is tested
get_prop_anykind(h, This, id) ==
    IF id < 0 \/ id >= prop_cnt(h, This)
    THEN NOPROP
    ELSE id

\* NOPROP is the NULL slot pointer
get_prop(h, This, id) ==
    IF id < 0 \/ id >= prop_cnt(h, This) \/ Prop(h, This, id).type = PROP_DELETED
    THEN NOPROP
    ELSE id

FAULTP == -2

(***************************** effective flags *****************************)
\* a plausible slip: the slot is left as it is
Tombstone_kept(s) == s

\* prop->type = PROP_DELETED
Tombstone(s) == [s EXCEPT !.type = PROP_DELETED]

RECURSIVE get_flags(_, _, _, _)
\* [h, flags, ok]: a PROTREF slot whose target get_prop rejects is turned into
\* PROP_DELETED; ok is FALSE when This->prototype is not a live object
get_flags(h, This, prop, fuel) ==
    LET s == Prop(h, This, prop)
        prototype == h[This].prototype
    IN  IF s.type = PROP_PROTREF
        THEN IF ~Valid(h, prototype) \/ fuel = 0
             THEN [h |-> h, flags |-> {}, ok |-> FALSE]
             ELSE LET parent == get_prop(h, prototype, s.ref)
                  IN  IF parent = NOPROP
                      THEN [h |-> SetProp(h, This, prop, Tombstone(s)),
                            flags |-> {}, ok |-> TRUE]
                      ELSE get_flags(h, prototype, parent, fuel - 1)
        ELSE [h |-> h, flags |-> s.flags, ok |-> TRUE]

(***************************** built-in lookup *****************************)
RECURSIVE bsearch_lower(_, _, _, _)
\* a plausible slip: the half above the probe is never searched
bsearch_lower(props, name, min, max) ==
    IF min <= max
    THEN LET i == (min + max) \div 2
             r == strcmpW(name, props[i + 1].name)
         IN  IF r = 0 THEN i + 1
             ELSE IF r < 0 THEN bsearch_lower(props, name, min, i - 1)
             ELSE NOPROP
    ELSE NOPROP

RECURSIVE bsearch(_, _, _, _)
\* the loop of find_builtin_prop over the 0-based range min..max
bsearch(props, name, min, max) ==
    IF min <= max
    THEN LET i == (min + max) \div 2
             r == strcmpW(name, props[i + 1].name)
         IN  IF r = 0 THEN i + 1
             ELSE IF r < 0 THEN bsearch(props, name, min, i - 1)
             ELSE bsearch(props, name, i + 1, max)
    ELSE NOPROP

\* index p of the descriptor in the class's props array, NOPROP for NULL
find_builtin_prop(h, This, name) ==
    LET props == builtin_infos[h[This].builtin_info].props
    IN  bsearch(props, name, 0, Len(props) - 1)

(***************************** appending slots *****************************)
\* a plausible slip: a named tombstone is taken for the new slot
StoreNew_reuse(props, slot) ==
    LET dead == {i \in 1 .. Len(props) : props[i].type = PROP_DELETED /\ props[i].name # NULLW}
    IN  IF dead = {} THEN Append(props, slot)
        ELSE [props EXCEPT ![CHOOSE i \in dead : TRUE] = slot]

\* ret = This->props + This->prop_cnt++: the new slot is the one past the
\* last, no slot is moved or taken over
StoreNew(props, slot) == Append(props, slot)

\* [h, ret]: ret is the new slot, NOPROP for NULL, FAULTP when the slot is
\* written outside the block behind props
alloc_prop(h, This, name, type, flags, mem) ==
    LET o == h[This]
        full == o.buf_size = Len(o.props)
        o1 == IF full THEN [o EXCEPT !.buf_size = 2 * o.buf_size] ELSE o
    IN  IF full /\ mem = NO_REALLOC
        THEN [h |-> [h EXCEPT ![This] = o1], ret |-> NOPROP]
        ELSE LET o2 == IF full THEN [o1 EXCEPT !.alloc_size = o1.buf_size] ELSE o1
                 dup == heap_strdupW(name, mem)
                 o3 == [o2 EXCEPT !.props = StoreNew(o2.props, dispex_prop_t(dup, type, flags))]
             IN  IF Len(o2.props) >= o2.alloc_size
                 THEN [h |-> [h EXCEPT ![This] = o2], ret |-> FAULTP]
                 ELSE [h |-> [h EXCEPT ![This] = o3],
                       ret |-> IF dup = NULLW THEN NOPROP ELSE Len(o2.props)]

alloc_protref(h, This, name, ref, mem) ==
    With(alloc_prop(h, This, name, PROP_PROTREF, {}, mem), LAMBDA a :
        IF a.ret < 0
        THEN a
        ELSE [h |-> SetProp(a.h, This, a.ret, [Prop(a.h, This, a.ret) EXCEPT !.ref = ref]),
              ret |-> a.ret])

(***************************** lookup by name ******************************)
\* a plausible slip: the scan stops one slot short of prop_cnt
LocalScan_short(h, This, name) ==
    LET hits == {id \in 0 .. prop_cnt(h, This) - 2 :
                    /\ Prop(h, This, id).name # NULLW
                    /\ strcmpW(Prop(h, This, id).name, name) = 0}
    IN  IF hits = {} THEN NOPROP ELSE CHOOSE id \in hits : \A other \in hits : id <= other

\* a plausible slip: the scan starts behind the two reserved slots
LocalScan_unreserved(h, This, name) ==
    LET hits == {id \in 2 .. prop_cnt(h, This) - 1 :
                    /\ Prop(h, This, id).name # NULLW
                    /\ strcmpW(Prop(h, This, id).name, name) = 0}
    IN  IF hits = {} THEN NOPROP ELSE CHOOSE id \in hits : \A other \in hits : id <= other

\* the scan of find_prop_name: first slot with a non-NULL name equal to name
LocalScan(h, This, name) ==
    LET hits == {id \in 0 .. prop_cnt(h, This) - 1 :
                    /\ Prop(h, This, id).name # NULLW
                    /\ strcmpW(Prop(h, This, id).name, name) = 0}
    IN  IF hits = {} THEN NOPROP ELSE CHOOSE id \in hits : \A other \in hits : id <= other

\* strcmpW is handed the NULL name: by the scan when some slot has a name,
\* by the binary search when the class has built-ins
NullCompared(h, This, name) ==
    /\ name = NULLW
    /\ \/ \E id \in 0 .. prop_cnt(h, This) - 1 : Prop(h, This, id).name # NULLW
       \/ builtin_infos[h[This].builtin_info].props # <<>>

\* [h, hres, ret]
find_prop_name(h, This, name, mem) ==
    IF NullCompared(h, This, name)
    THEN [h |-> h, hres |-> FAULT, ret |-> NOPROP]
    ELSE LET prop == IF name = NULLW THEN NOPROP ELSE LocalScan(h, This, name)
             builtin == IF name = NULLW THEN NOPROP ELSE find_builtin_prop(h, This, name)
         IN  IF prop # NOPROP
             THEN [h |-> h, hres |-> S_OK, ret |-> prop]
             ELSE IF builtin # NOPROP
             THEN With(alloc_prop(h, This, name, PROP_BUILTIN,
                                  builtin_prop(h[This].builtin_info, builtin).flags, mem),
                       LAMBDA a :
                      IF a.ret = FAULTP THEN [h |-> a.h, hres |-> FAULT, ret |-> NOPROP]
                      ELSE IF a.ret = NOPROP
                      THEN [h |-> a.h, hres |-> E_OUTOFMEMORY, ret |-> NOPROP]
                      ELSE [h |-> SetProp(a.h, This, a.ret,
                                          [Prop(a.h, This, a.ret) EXCEPT !.p = builtin]),
                            hres |-> S_OK, ret |-> a.ret])
             ELSE [h |-> h, hres |-> S_OK, ret |-> NOPROP]

\* the alloc argument of the call on the prototype
ProtAlloc_pass(alloc) == alloc

ProtAlloc(alloc) == FALSE

RECURSIVE find_prop_name_prot(_, _, _, _, _, _)
\* [h, hres, ret]; fuel bounds the depth of the recursion over the prototypes
find_prop_name_prot(h, This, name, alloc, mem, fuel) ==
    LET prototype == h[This].prototype
        \* the tail of the function: create the own property when asked to
        Tail2(h2) ==
            IF alloc
            THEN With(alloc_prop(h2, This, name, PROP_VARIANT, {PROPF_ENUM}, mem), LAMBDA a :
                     IF a.ret = FAULTP THEN [h |-> a.h, hres |-> FAULT, ret |-> NOPROP]
                     ELSE IF a.ret = NOPROP
                     THEN [h |-> a.h, hres |-> E_OUTOFMEMORY, ret |-> NOPROP]
                     ELSE [h |-> SetProp(a.h, This, a.ret,
                                         [Prop(a.h, This, a.ret) EXCEPT !.var = VEmpty]),
                           hres |-> S_OK, ret |-> a.ret])
            ELSE [h |-> h2, hres |-> S_OK, ret |-> NOPROP]
        \* the prototype's slot up.ret is given a PROP_PROTREF slot in This
        Cache(up) ==
            With(alloc_protref(up.h, This, Prop(up.h, prototype, up.ret).name, up.ret, mem),
                 LAMBDA a :
                     IF a.ret = FAULTP
                     THEN [h |-> a.h, hres |-> FAULT, ret |-> NOPROP]
                     ELSE IF a.ret = NOPROP
                     THEN [h |-> a.h, hres |-> E_OUTOFMEMORY, ret |-> NOPROP]
                     ELSE [h |-> a.h, hres |-> S_OK, ret |-> a.ret])
    IN  With(find_prop_name(h, This, name, mem), LAMBDA own :
        IF FAILED(own.hres) \/ own.ret # NOPROP
        THEN own
        ELSE IF prototype # NULL
        THEN IF ~Valid(own.h, prototype) \/ fuel = 0
             THEN [h |-> own.h, hres |-> FAULT, ret |-> NOPROP]
             ELSE With(find_prop_name_prot(own.h, prototype, name, ProtAlloc(alloc), mem, fuel - 1),
                       LAMBDA up :
                          IF FAILED(up.hres) THEN up
                          ELSE IF up.ret # NOPROP THEN Cache(up)
                          ELSE Tail2(up.h))
        ELSE Tail2(own.h))

(***************************** reference counting **************************)
RECURSIVE DispatchEx_Release(_, _)
RECURSIVE ReleaseSlots(_, _, _)

\* [h, ok]: VariantClear releases the object a VT_DISPATCH value refers to
VariantClear(h, var) ==
    IF var.vt = VT_DISPATCH THEN DispatchEx_Release(h, var.val) ELSE [h |-> h, ok |-> TRUE]

\* the loop of DispatchEx_Release over the slots, from slot i on
ReleaseSlots(h, This, i) ==
    IF i >= prop_cnt(h, This)
    THEN [h |-> h, ok |-> TRUE]
    ELSE LET s == Prop(h, This, i)
         IN  With(IF s.type = PROP_VARIANT THEN VariantClear(h, s.var) ELSE [h |-> h, ok |-> TRUE],
                  LAMBDA c : IF c.ok THEN ReleaseSlots(c.h, This, i + 1) ELSE c)

\* [h, ok]: ok is FALSE when a freed object is released.  The prototype
\* pointer is not released here: the reference taken by init_dispex is the
\* one slot 1 gives back through VariantClear.
\* a plausible slip: the count is rewritten from a value read earlier
InterlockedIncrement_torn(cur, seen) == seen + 1

InterlockedDecrement_torn(cur, seen) == seen - 1

\* one indivisible read-modify-write of the count: what was read before the
\* operation plays no part
InterlockedIncrement(cur, seen) == cur + 1

InterlockedDecrement(cur, seen) == cur - 1

\* [h, ok]: the if(!ref) branch of DispatchEx_Release
Destruct(h, This) ==
    With(ReleaseSlots(h, This, 0), LAMBDA r :
        IF r.ok THEN [h |-> [r.h EXCEPT ![This] = FreeBlock], ok |-> TRUE] ELSE r)

DispatchEx_Release(h, This) ==
    IF ~Valid(h, This)
    THEN [h |-> h, ok |-> FALSE]
    ELSE LET h1 == [h EXCEPT ![This].ref = InterlockedDecrement(@, @)]
         IN  IF h1[This].ref # 0
             THEN [h |-> h1, ok |-> TRUE]
             ELSE Destruct(h1, This)

DispatchEx_AddRef(h, This) == [h EXCEPT ![This].ref = InterlockedIncrement(@, @)]

\* [h, ok]: VariantCopy into an empty destination takes a reference on the
\* object a VT_DISPATCH source refers to
VariantCopy(h, src) ==
    IF src.vt = VT_DISPATCH
    THEN IF Valid(h, src.val)
         THEN [h |-> DispatchEx_AddRef(h, src.val), ok |-> TRUE]
         ELSE [h |-> h, ok |-> FALSE]
    ELSE [h |-> h, ok |-> TRUE]

(***************************** arguments ***********************************)
\* DISPPARAMS: rgvarg (cArgs values) and rgdispidNamedArgs (cNamedArgs ids)
DispParams(rgvarg, named) == [rgvarg |-> rgvarg, rgdispidNamedArgs |-> named]

NoArgs == DispParams(<<>>, <<>>)
PutArgs(v) == DispParams(<<v>>, <<DISPID_PROPERTYPUT>>)

HasNamed(dp, id) ==
    \E i \in 1 .. Len(dp.rgdispidNamedArgs) : dp.rgdispidNamedArgs[i] = id

\* a plausible slip: the arguments are handed on as they came
set_this_skipped(olddp, jsthis) == olddp

\* a plausible slip: the receiver is put behind the caller's arguments
set_this_trailing(olddp, jsthis) ==
    IF HasNamed(olddp, DISPID_THIS)
    THEN olddp
    ELSE DispParams(olddp.rgvarg \o <<VDisp(jsthis)>>,
                    olddp.rgdispidNamedArgs \o <<DISPID_THIS>>)

\* the receiver becomes the leading argument, named DISPID_THIS, unless the
\* caller already passed a DISPID_THIS argument
set_this(olddp, jsthis) ==
    IF HasNamed(olddp, DISPID_THIS)
    THEN olddp
    ELSE DispParams(<<VDisp(jsthis)>> \o olddp.rgvarg,
                    <<DISPID_THIS>> \o olddp.rgdispidNamedArgs)

\* one entry of the log of what a call handed to the class: a descriptor's
\* invoke (p >= 0) or the on_put hook (p = NOPROP)
Call(owner, p, this, mode, dp) ==
    [owner |-> owner, p |-> p, this |-> this, mode |-> mode, dp |-> dp]

ON_PUT == "on_put"

(***************************** get / put / invoke **************************)
\* a plausible slip: no built-in is taken for a method
IsMethod_never(desc) == FALSE

\* prop->u.p->flags & PROPF_METHOD
IsMethod(desc) == PROPF_METHOD \in desc.flags

RECURSIVE prop_get(_, _, _, _, _, _)
\* [h, hres, retv, calls]; br is the HRESULT the descriptor's invoke returns
prop_get(h, This, prop, dp, br, fuel) ==
    LET s == Prop(h, This, prop)
        prototype == h[This].prototype
        cls == h[This].builtin_info
    IN  CASE s.type = PROP_BUILTIN ->
                IF IsMethod(builtin_prop(cls, s.p))
                THEN [h |-> h, hres |-> E_NOTIMPL, retv |-> VEmpty, calls |-> <<>>]
                ELSE [h |-> h, hres |-> br, retv |-> VEmpty,
                      calls |-> <<Call(This, s.p, This, DISPATCH_PROPERTYGET, dp)>>]
          [] s.type = PROP_PROTREF ->
                IF ~Valid(h, prototype) \/ s.ref >= prop_cnt(h, prototype) \/ fuel = 0
                THEN [h |-> h, hres |-> FAULT, retv |-> VEmpty, calls |-> <<>>]
                ELSE prop_get(h, prototype, s.ref, dp, br, fuel - 1)
          [] s.type = PROP_VARIANT ->
                LET c == VariantCopy(h, s.var)
                IN  IF c.ok
                    THEN [h |-> c.h, hres |-> S_OK, retv |-> s.var, calls |-> <<>>]
                    ELSE [h |-> h, hres |-> FAULT, retv |-> VEmpty, calls |-> <<>>]
          [] OTHER -> [h |-> h, hres |-> E_FAIL, retv |-> VEmpty, calls |-> <<>>]

\* a plausible slip: the shadowing slot keeps the flags of the slot it replaces
ShadowSlot_keepflags(s) ==
    [s EXCEPT !.type = PROP_VARIANT, !.var = VEmpty]

\* a plausible slip: the value of the argument is not stored
Stored_dropped(s, v) == s

\* VariantCopy(&prop->u.var, &pdp->rgvarg[i]): the slot holds the argument
Stored(s, v) == [s EXCEPT !.var = v]

\* the PROP_PROTREF case of the switch, which a method-like PROP_BUILTIN
\* falls through to: the slot becomes an empty, enumerable PROP_VARIANT
ShadowSlot(s) ==
    [s EXCEPT !.type = PROP_VARIANT, !.flags = {PROPF_ENUM}, !.var = VEmpty]

\* [h, hres, calls]
prop_put(h, This, prop, dp, br) ==
    LET s == Prop(h, This, prop)
        cls == h[This].builtin_info
        shadow == s.type = PROP_PROTREF \/ (s.type = PROP_BUILTIN /\ PROPF_METHOD \in s.flags)
        \* the switch: the slot is made an empty PROP_VARIANT
        s1 == IF shadow THEN ShadowSlot(s) ELSE [s EXCEPT !.var = VEmpty]
        named == dp.rgdispidNamedArgs
        hits == {i \in 1 .. Len(named) : named[i] = DISPID_PROPERTYPUT}
        i == CHOOSE k \in hits : \A other \in hits : k <= other
    IN  IF s.type = PROP_BUILTIN /\ PROPF_METHOD \notin s.flags
        THEN [h |-> h, hres |-> br,
              calls |-> <<Call(This, s.p, This, DISPATCH_PROPERTYPUT, dp)>>]
        ELSE IF s.type \notin {PROP_BUILTIN, PROP_PROTREF, PROP_VARIANT}
        THEN [h |-> h, hres |-> E_FAIL, calls |-> <<>>]
        ELSE With(IF s.type = PROP_VARIANT THEN VariantClear(h, s.var) ELSE [h |-> h, ok |-> TRUE],
                  LAMBDA cleared :
             IF ~cleared.ok
             THEN [h |-> h, hres |-> FAULT, calls |-> <<>>]
             ELSE With(SetProp(cleared.h, This, prop, s1), LAMBDA h1 :
                  \* the loop over the named arguments comes after the switch
                  IF hits = {}
                  THEN [h |-> h1, hres |-> DISP_E_PARAMNOTOPTIONAL, calls |-> <<>>]
                  ELSE With(VariantCopy(h1, dp.rgvarg[i]), LAMBDA copied :
                       IF ~copied.ok
                       THEN [h |-> h1, hres |-> FAULT, calls |-> <<>>]
                       ELSE [h |-> SetProp(copied.h, This, prop, Stored(s1, dp.rgvarg[i])),
                             hres |-> S_OK,
                             calls |-> IF builtin_infos[cls].on_put
                                       THEN <<Call(This, NOPROP, This, ON_PUT, NoArgs)>>
                                       ELSE <<>>])))

RECURSIVE invoke_prop_func(_, _, _, _, _, _, _, _)
RECURSIVE jsdisp_call(_, _, _, _, _, _, _)
\* [h, hres, retv, calls]
invoke_prop_func(h, This, jsthis, prop, flags, dp, br, fuel) ==
    LET s == Prop(h, This, prop)
        prototype == h[This].prototype
        none == [h |-> h, hres |-> E_FAIL, retv |-> VEmpty, calls |-> <<>>]
    IN  CASE s.type = PROP_BUILTIN ->
                IF flags = DISPATCH_CONSTRUCT /\ DISPATCH_METHOD \in s.flags
                THEN [none EXCEPT !.hres = E_INVALIDARG]
                ELSE [none EXCEPT !.hres = br,
                                  !.calls = <<Call(This, s.p, jsthis, flags, dp)>>]
          [] s.type = PROP_PROTREF ->
                IF ~Valid(h, prototype) \/ s.ref >= prop_cnt(h, prototype) \/ fuel = 0
                THEN [none EXCEPT !.hres = FAULT]
                ELSE invoke_prop_func(h, prototype, jsthis, s.ref, flags, dp, br, fuel - 1)
          [] s.type = PROP_VARIANT ->
                IF s.var.vt # VT_DISPATCH
                THEN none
                ELSE \* disp_call -> jsdisp_call on the object the value refers to
                     LET disp == s.var.val
                         new_dp == set_this(dp, jsthis)
                     IN  IF ~Valid(h, disp) \/ fuel = 0
                         THEN [none EXCEPT !.hres = FAULT]
                         ELSE jsdisp_call(h, disp, DISPID_VALUE, flags, new_dp, br, fuel - 1)
          [] OTHER -> none

\* [h, hres, retv, calls]
jsdisp_call(h, disp, id, flags, dp, br, fuel) ==
    LET prop == get_prop(h, disp, id)
    IN  IF prop = NOPROP
        THEN [h |-> h, hres |-> DISP_E_MEMBERNOTFOUND, retv |-> VEmpty, calls |-> <<>>]
        ELSE invoke_prop_func(h, disp, disp, prop, flags, dp, br, fuel)

(***************************** inherited names *****************************)
RECURSIVE fill_protrefs(_, _, _, _)
RECURSIVE FillLoop(_, _, _, _)

\* the for loop of fill_protrefs, from slot iter of the prototype on
FillLoop(h, This, iter, mem) ==
    LET prototype == h[This].prototype
    IN  IF iter >= prop_cnt(h, prototype)
        THEN [h |-> h, hres |-> S_OK]
        ELSE LET name == Prop(h, prototype, iter).name
             IN  With(find_prop_name(h, This, name, mem), LAMBDA f :
                 IF FAILED(f.hres)
                 THEN [h |-> f.h, hres |-> f.hres]
                 ELSE IF f.ret # NOPROP
                 THEN FillLoop(f.h, This, iter + 1, mem)
                 ELSE With(alloc_protref(f.h, This, name, iter, mem), LAMBDA a :
                          IF a.ret = FAULTP THEN [h |-> a.h, hres |-> FAULT]
                          ELSE IF a.ret = NOPROP THEN [h |-> a.h, hres |-> E_OUTOFMEMORY]
                          ELSE FillLoop(a.h, This, iter + 1, mem)))

\* [h, hres]; the result of the call on the prototype is dropped by the code
fill_protrefs(h, This, mem, fuel) ==
    LET prototype == h[This].prototype
    IN  IF prototype = NULL
        THEN [h |-> h, hres |-> S_OK]
        ELSE IF ~Valid(h, prototype) \/ fuel = 0
        THEN [h |-> h, hres |-> FAULT]
        ELSE LET up == fill_protrefs(h, prototype, mem, fuel - 1)
             IN  IF up.hres = FAULT THEN up ELSE FillLoop(up.h, This, 0, mem)

(***************************** the dispatch interface **********************)
UNSET == -9

\* a plausible slip: every lookup may create the name
NameEnsure_always(grfdex) == TRUE

\* (grfdex & fdexNameEnsure) != 0, the alloc argument of find_prop_name_prot
NameEnsure(grfdex) == fdexNameEnsure \in grfdex

\* [h, hres, pid]; pid is UNSET when the code does not write *pid
DispatchEx_GetDispID(h, This, bstrName, grfdex, mem) ==
    IF grfdex \ {fdexNameCaseSensitive, fdexNameEnsure, fdexNameImplicit} # {}
    THEN [h |-> h, hres |-> E_NOTIMPL, pid |-> UNSET]
    ELSE With(find_prop_name_prot(h, This, bstrName, NameEnsure(grfdex), mem, NObj),
              LAMBDA f :
             IF FAILED(f.hres) THEN [h |-> f.h, hres |-> f.hres, pid |-> UNSET]
             ELSE IF f.ret # NOPROP
             THEN [h |-> f.h, hres |-> S_OK, pid |-> prop_to_id(This, f.ret)]
             ELSE [h |-> f.h, hres |-> DISP_E_UNKNOWNNAME, pid |-> UNSET])

RECURSIVE DispatchEx_GetIDsOfNames(_, _, _, _)
\* [h, hres, rgDispId]: the loop over rgszNames, each looked up with grfdex 0;
\* rgDispId holds the identifiers written before the loop ended
DispatchEx_GetIDsOfNames(h, This, rgszNames, mem) ==
    IF rgszNames = <<>>
    THEN [h |-> h, hres |-> S_OK, rgDispId |-> <<>>]
    ELSE With(DispatchEx_GetDispID(h, This, Head(rgszNames), {}, mem), LAMBDA r :
             IF FAILED(r.hres)
             THEN [h |-> r.h, hres |-> r.hres, rgDispId |-> <<>>]
             ELSE With(DispatchEx_GetIDsOfNames(r.h, This, Tail(rgszNames), mem), LAMBDA rest :
                      [rest EXCEPT !.rgDispId = <<r.pid>> \o @]))

\* [h, hres, retv, calls]
DispatchEx_InvokeEx(h, This, id, wFlags, pdp, br) ==
    LET prop == get_prop(h, This, id)
    IN  IF prop = NOPROP
        THEN [h |-> h, hres |-> DISP_E_MEMBERNOTFOUND, retv |-> VEmpty, calls |-> <<>>]
        ELSE CASE wFlags \in {DISPATCH_METHOD, DISPATCH_CONSTRUCT} ->
                    invoke_prop_func(h, This, This, prop, wFlags, pdp, br, NObj)
               [] wFlags = DISPATCH_PROPERTYGET ->
                    prop_get(h, This, prop, pdp, br, NObj)
               [] wFlags = DISPATCH_PROPERTYPUT ->
                    With(prop_put(h, This, prop, pdp, br), LAMBDA r :
                        [h |-> r.h, hres |-> r.hres, retv |-> VEmpty, calls |-> r.calls])
               [] OTHER ->
                    [h |-> h, hres |-> E_INVALIDARG, retv |-> VEmpty, calls |-> <<>>]

RECURSIVE NextLoop(_, _, _)
\* the while loop of DispatchEx_GetNextDispID, from slot iter on
NextLoop(h, This, iter) ==
    IF iter >= prop_cnt(h, This)
    THEN [h |-> h, hres |-> S_FALSE, pid |-> DISPID_STARTENUM]
    ELSE IF Prop(h, This, iter).name = NULLW
    THEN NextLoop(h, This, iter + 1)
    ELSE With(get_flags(h, This, iter, NObj), LAMBDA g :
             IF ~g.ok THEN [h |-> g.h, hres |-> FAULT, pid |-> UNSET]
             ELSE IF PROPF_ENUM \in g.flags
             THEN [h |-> g.h, hres |-> S_OK, pid |-> prop_to_id(This, iter)]
             ELSE NextLoop(g.h, This, iter + 1))

\* [h, hres, pid]; grfdex is not read by the code
DispatchEx_GetNextDispID(h, This, grfdex, id, mem) ==
    With(IF id = DISPID_STARTENUM
         THEN fill_protrefs(h, This, mem, NObj)
         ELSE [h |-> h, hres |-> S_OK],
         LAMBDA filled :
        IF FAILED(filled.hres)
        THEN [h |-> filled.h, hres |-> filled.hres, pid |-> UNSET]
        ELSE IF get_prop(filled.h, This, id + 1) = NOPROP
        THEN [h |-> filled.h, hres |-> S_FALSE, pid |-> DISPID_STARTENUM]
        ELSE NextLoop(filled.h, This, get_prop(filled.h, This, id + 1)))

(***************************** construction ********************************)
NO_OBJECT == "NO_OBJECT"
NO_PROPS == "NO_PROPS"

\* a plausible slip: storing the pointer in slot 1 takes a reference of its own
jsdisp_set_prot_prop_retain(h, dispex, prototype) ==
    IF Prop(h, dispex, 1).name = NULLW
    THEN [h |-> h, hres |-> E_OUTOFMEMORY]
    ELSE [h |-> SetProp(DispatchEx_AddRef(h, prototype), dispex, 1,
                        [Prop(h, dispex, 1) EXCEPT !.type = PROP_VARIANT, !.flags = {},
                                                   !.var = VDisp(prototype)]),
          hres |-> S_OK]

\* slot 1 becomes a PROP_VARIANT holding the prototype; no reference is taken
jsdisp_set_prot_prop(h, dispex, prototype) ==
    IF Prop(h, dispex, 1).name = NULLW
    THEN [h |-> h, hres |-> E_OUTOFMEMORY]
    ELSE [h |-> SetProp(h, dispex, 1,
                        [Prop(h, dispex, 1) EXCEPT !.type = PROP_VARIANT, !.flags = {},
                                                   !.var = VDisp(prototype)]),
          hres |-> S_OK]

\* [h, hres, ctx]: ctx is the number of references taken on the script context
init_dispex(h, dispex, builtin_info, prototype, mem) ==
    LET zero == [FreeBlock EXCEPT !.alive = TRUE]
        o1 == [zero EXCEPT !.ref = 1, !.builtin_info = builtin_info, !.buf_size = 4]
        slot0 == dispex_prop_t(NULLW,
                               IF builtin_infos[builtin_info].value_prop.invoke
                               THEN PROP_BUILTIN ELSE PROP_DELETED, {})
        slot1 == dispex_prop_t(IF mem = NO_STRDUP THEN NULLW ELSE prototypeW, PROP_DELETED, {})
        o2 == [o1 EXCEPT !.alloc_size = 4, !.prototype = prototype,
                         !.props = << [slot0 EXCEPT !.p = IF slot0.type = PROP_BUILTIN
                                                            THEN 0 ELSE NOPROP],
                                      slot1 >>]
        h1 == [h EXCEPT ![dispex] = o2]
    IN  IF mem = NO_PROPS
        THEN [h |-> [h EXCEPT ![dispex] = o1], hres |-> E_OUTOFMEMORY, ctx |-> 0]
        ELSE IF prototype = NULL
        THEN [h |-> h1, hres |-> S_OK, ctx |-> 1]
        ELSE With(DispatchEx_AddRef(h1, prototype), LAMBDA h2 :
             With(jsdisp_set_prot_prop(h2, dispex, prototype), LAMBDA set :
                IF FAILED(set.hres)
                THEN \* IDispatchEx_Release(dispex) runs script_release(This->ctx)
                     \* while ctx is still the NULL of the zeroed block
                     [h |-> h2, hres |-> FAULT, ctx |-> 0]
                ELSE [h |-> set.h, hres |-> S_OK, ctx |-> 1]))

\* the address heap_alloc_zero returns: the lowest free block
NewAddr(h) == CHOOSE a \in Objs : ~h[a].alive /\ \A b \in Objs : ~h[b].alive => a <= b

\* [h, hres, dispex, ctx]; builtin_info 0 is the NULL pointer
create_dispex(h, builtin_info, prototype, mem) ==
    IF mem = NO_OBJECT
    THEN [h |-> h, hres |-> E_OUTOFMEMORY, dispex |-> NULL, ctx |-> 0]
    ELSE With(NewAddr(h), LAMBDA ret :
         With(init_dispex(h, ret, IF builtin_info # 0 THEN builtin_info ELSE 1, prototype, mem),
              LAMBDA i :
            IF FAILED(i.hres)
            THEN [h |-> i.h, hres |-> i.hres, dispex |-> NULL, ctx |-> i.ctx]
            ELSE [h |-> i.h, hres |-> S_OK, dispex |-> ret, ctx |-> i.ctx]))

(***************************** the host ************************************)
\* what the host may pass
Grfdex == { {}, {fdexNameEnsure} }
IntValues == {VInt(5), VInt(7)}

\* identifiers the host tries on an object: every slot, the reserved
\* DISPID_STARTENUM and the first identifier past the table
Ids(This) == -1 .. prop_cnt(heap, This)

Destroyed(h1, h2) == {o \in Objs : h1[o].alive /\ ~h2[o].alive}

\* the object graphs the host has built before it starts calling: each is
\* the result of a sequence of create_dispex calls, the host holding the one
\* reference create_dispex returns for every object
Made(builtin_info, prototype) == [builtin_info |-> builtin_info, prototype |-> prototype]

NoObjects == <<>>
\* 3 -> 2 -> 1: a plain object, its plain prototype, and a greeter on top
Chain == << Made(2, NULL), Made(1, 1), Made(1, 2) >>
\* 2 -> 1 <- 3: a greeter that is the prototype of a plain and of a greeter
Fan == << Made(2, NULL), Made(1, 1), Made(2, 1) >>

Graphs == {NoObjects, Chain, Fan}

RECURSIVE Build(_, _)
Build(h, graph) ==
    IF graph = <<>>
    THEN h
    ELSE Build(create_dispex(h, Head(graph).builtin_info, Head(graph).prototype, MEM_OK).h,
               Tail(graph))

\* a thread outside every call: ref is the local LONG ref of the call it is
\* in, seen the count as it stood when the call was entered, to the thread
\* the reference an AddRef takes is meant for, own the references it holds
Idle(own) == [pc |-> "idle", ref |-> 0, seen |-> 0, to |-> 0, own |-> own, freed |-> 0]

Threads == 1 .. NThreads

NoCallers == [t \in Threads |-> Idle(0)]

\* the engine's own class, nothing looked up
NoLookup == [props |-> <<>>, name |-> NULLW, ret |-> NOPROP]

InitGraph(graph, calls) ==
    /\ heap = Build([o \in Objs |-> FreeBlock], graph)
    /\ held = [o \in Objs |-> IF o <= Len(graph) THEN 1 ELSE 0]
    /\ ctx_ref = Len(graph)
    /\ fault = FALSE
    /\ budget = calls
    /\ lookup = NoLookup
    /\ callers = NoCallers

Init == \E graph \in Graphs : InitGraph(graph, MaxSteps)

CanCall == ~fault /\ budget > 0

\* the host creates an object of a class, with a prototype it holds or none
Create(builtin_info, prototype) ==
    /\ CanCall
    /\ \E a \in Objs : ~heap[a].alive
    /\ prototype = NULL \/ (prototype \in Objs /\ held[prototype] > 0)
    /\ \E r \in {create_dispex(heap, builtin_info, prototype, MEM_OK)} :
           /\ heap' = r.h
           /\ held' = IF r.dispex # NULL THEN [held EXCEPT ![r.dispex] = 1] ELSE held
           /\ ctx_ref' = ctx_ref + r.ctx
           /\ fault' = (r.hres = FAULT)
    /\ budget' = budget - 1
    /\ UNCHANGED <<lookup, callers>>

AddRef(This) ==
    /\ CanCall
    /\ held[This] > 0 /\ held[This] < MaxHeld
    /\ heap' = DispatchEx_AddRef(heap, This)
    /\ held' = [held EXCEPT ![This] = @ + 1]
    /\ UNCHANGED <<ctx_ref, fault>>
    /\ budget' = budget - 1
    /\ UNCHANGED <<lookup, callers>>

Release(This) ==
    /\ CanCall
    /\ held[This] > 0
    /\ \E r \in {DispatchEx_Release(heap, This)} :
           /\ heap' = r.h
           /\ fault' = ~r.ok
           /\ ctx_ref' = ctx_ref - Cardinality(Destroyed(heap, r.h))
    /\ held' = [held EXCEPT ![This] = @ - 1]
    /\ budget' = budget - 1
    /\ UNCHANGED <<lookup, callers>>

GetDispID(This, bstrName, grfdex) ==
    /\ CanCall
    /\ held[This] > 0
    /\ \E r \in {DispatchEx_GetDispID(heap, This, bstrName, grfdex, MEM_OK)} :
           /\ heap' = r.h
           /\ fault' = (r.hres = FAULT)
    /\ UNCHANGED <<held, ctx_ref>>
    /\ budget' = budget - 1
    /\ UNCHANGED <<lookup, callers>>

\* the host keeps the value a call returns, and with it the reference taken
\* on the object the value refers to
InvokeEx(This, id, wFlags, pdp, br) ==
    /\ CanCall
    /\ held[This] > 0
    /\ id \in Ids(This)
    /\ \E r \in {DispatchEx_InvokeEx(heap, This, id, wFlags, pdp, br)} :
       LET kept == r.hres # FAULT /\ r.retv.vt = VT_DISPATCH
       IN  /\ kept => held[r.retv.val] < MaxHeld
           /\ heap' = r.h
           /\ fault' = (r.hres = FAULT)
           /\ held' = IF kept THEN [held EXCEPT ![r.retv.val] = @ + 1] ELSE held
           /\ ctx_ref' = ctx_ref - Cardinality(Destroyed(heap, r.h))
    /\ budget' = budget - 1
    /\ UNCHANGED <<lookup, callers>>

GetNextDispID(This, id) ==
    /\ CanCall
    /\ held[This] > 0
    /\ id \in Ids(This)
    /\ \E r \in {DispatchEx_GetNextDispID(heap, This, {}, id, MEM_OK)} :
           /\ heap' = r.h
           /\ fault' = (r.hres = FAULT)
    /\ UNCHANGED <<held, ctx_ref>>
    /\ budget' = budget - 1
    /\ UNCHANGED <<lookup, callers>>

AllIds == -1 .. 8

Next ==
    \/ \E c \in Classes, p \in {NULL} \cup Objs : Create(c, p)
    \/ \E o \in Objs : AddRef(o)
    \/ \E o \in Objs : Release(o)
    \/ \E o \in Objs, n \in Names, g \in Grfdex : GetDispID(o, n, g)
    \/ \E o \in Objs, i \in AllIds : InvokeEx(o, i, DISPATCH_PROPERTYGET, NoArgs, S_OK)
    \/ \E o \in Objs, i \in AllIds, v \in IntValues :
            InvokeEx(o, i, DISPATCH_PROPERTYPUT, PutArgs(v), S_OK)
    \/ \E o \in Objs, i \in AllIds : InvokeEx(o, i, DISPATCH_PROPERTYPUT, NoArgs, S_OK)
    \/ \E o \in Objs, i \in AllIds : InvokeEx(o, i, DISPATCH_METHOD, NoArgs, S_OK)
    \/ \E o \in Objs, i \in AllIds : GetNextDispID(o, i)

Spec == Init /\ [][Next]_vars

(***************************************************************************)
(* Properties.  A property of what a call returns is stated over every     *)
(* call the host can make in a reachable state: the call's operator is     *)
(* applied to the current heap and its result is inspected.                *)
(***************************************************************************)
\* objects the host holds a reference on, hence may call
HostObjs == {o \in Objs : held[o] > 0 /\ heap[o].alive}

SlotIds(h, o) == 0 .. prop_cnt(h, o) - 1

\* the slots of o that carry the name n
Named(h, o, n) == {id \in SlotIds(h, o) : Prop(h, o, id).name = n}

\* C1 -- identifier stability: while an object lives its table only grows
\* and every slot keeps its name (its kind may change), and an identifier
\* that GetDispID returns for a name, or GetNextDispID returns, is the index
\* of a slot carrying that name.
NamesKept ==
    \A o \in Objs :
        (heap[o].alive /\ heap'[o].alive) =>
            /\ Len(heap'[o].props) >= Len(heap[o].props)
            /\ \A i \in 1 .. Len(heap[o].props) :
                    heap'[o].props[i].name = heap[o].props[i].name

IssuedIdNamesItsName ==
    \A o \in HostObjs :
        /\ \A n \in Names, g \in Grfdex :
                LET r == DispatchEx_GetDispID(heap, o, n, g, MEM_OK)
                IN  r.hres = S_OK => r.pid \in Named(r.h, o, n)
        /\ \A id \in Ids(o) :
                LET r == DispatchEx_GetNextDispID(heap, o, {}, id, MEM_OK)
                IN  r.hres = S_OK =>
                        r.pid \in SlotIds(r.h, o) /\ Prop(r.h, o, r.pid).name # NULLW

C1_IdentifierStability ==
    []IssuedIdNamesItsName /\ [][NamesKept]_vars

\* an object with two appended slots, the first of them written by a put
C1_Witness ==
    \E o \in Objs :
        /\ heap[o].alive
        /\ prop_cnt(heap, o) >= 4
        /\ Prop(heap, o, 2).type = PROP_VARIANT
        /\ Prop(heap, o, 2).var = VInt(5)

\* C2 -- a put without a DISPID_PROPERTYPUT argument reports
\* DISP_E_PARAMNOTOPTIONAL and leaves a Value, ProtoRef or method-like
\* Builtin slot exactly as it was.
C2_PutWithoutValueKeepsSlot ==
    \A o \in HostObjs : \A id \in SlotIds(heap, o) :
        LET s == Prop(heap, o, id)
            r == DispatchEx_InvokeEx(heap, o, id, DISPATCH_PROPERTYPUT, NoArgs, S_OK)
        IN  (\/ s.type \in {PROP_VARIANT, PROP_PROTREF}
             \/ (s.type = PROP_BUILTIN /\ PROPF_METHOD \in s.flags)) =>
                /\ r.hres = DISP_E_PARAMNOTOPTIONAL
                /\ Prop(r.h, o, id) = s

\* C3 -- resolution precedence: when o's own table holds a live Value or
\* Builtin slot named n and its prototype defines n too, resolving n on o
\* returns the own slot, appends nothing (no ProtoRef), and a get on it
\* answers from o: the own value, or o's own built-in called on o.
Defines(h, p, n) ==
    \/ \E id \in Named(h, p, n) : Prop(h, p, id).type # PROP_DELETED
    \/ \E i \in 1 .. Len(builtin_infos[h[p].builtin_info].props) :
            builtin_infos[h[p].builtin_info].props[i].name = n

OwnShadows(o, id, n) ==
    /\ Prop(heap, o, id).name = n
    /\ Prop(heap, o, id).type \in {PROP_VARIANT, PROP_BUILTIN}
    /\ Valid(heap, heap[o].prototype)
    /\ Defines(heap, heap[o].prototype, n)

C3_ResolutionPrecedence ==
    \A o \in HostObjs : \A id \in SlotIds(heap, o) : \A n \in Names :
        OwnShadows(o, id, n) =>
            /\ \A g \in Grfdex :
                    LET r == DispatchEx_GetDispID(heap, o, n, g, MEM_OK)
                    IN  r.hres = S_OK /\ r.pid = id /\ r.h = heap
            /\ LET got == DispatchEx_InvokeEx(heap, o, id, DISPATCH_PROPERTYGET, NoArgs, S_OK)
               IN  /\ Prop(heap, o, id).type = PROP_VARIANT =>
                        got.hres = S_OK /\ got.retv = Prop(heap, o, id).var /\ got.calls = <<>>
                   /\ \A k \in 1 .. Len(got.calls) :
                        got.calls[k].owner = o /\ got.calls[k].this = o

\* o holds its own value 5 under a name its prototype has a slot for too
C3_Witness ==
    \E o \in HostObjs : \E id \in SlotIds(heap, o) : \E n \in Names :
        /\ OwnShadows(o, id, n)
        /\ Prop(heap, o, id).var = VInt(5)
        /\ Named(heap, heap[o].prototype, n) # {}

\* C4 -- put/get round trip: a successful put of v to a Value, ProtoRef or
\* method-like Builtin slot is read back by a get, a second put of v2 is
\* read back as v2, a get reads what the Value slot holds and changes
\* nothing, and between two puts to the slot what it holds does not change.
PutTarget(s) ==
    \/ s.type \in {PROP_VARIANT, PROP_PROTREF}
    \/ (s.type = PROP_BUILTIN /\ PROPF_METHOD \in s.flags)

PutThenGet ==
    \A o \in HostObjs : \A id \in SlotIds(heap, o) : \A v \in IntValues, v2 \in IntValues :
        PutTarget(Prop(heap, o, id)) =>
            LET put1 == DispatchEx_InvokeEx(heap, o, id, DISPATCH_PROPERTYPUT, PutArgs(v), S_OK)
                get1 == DispatchEx_InvokeEx(put1.h, o, id, DISPATCH_PROPERTYGET, NoArgs, S_OK)
                put2 == DispatchEx_InvokeEx(get1.h, o, id, DISPATCH_PROPERTYPUT, PutArgs(v2), S_OK)
                get2 == DispatchEx_InvokeEx(put2.h, o, id, DISPATCH_PROPERTYGET, NoArgs, S_OK)
            IN  /\ put1.hres = S_OK
                /\ get1.hres = S_OK /\ get1.retv = v /\ get1.h = put1.h
                /\ put2.hres = S_OK
                /\ get2.hres = S_OK /\ get2.retv = v2

GetReadsValue ==
    \A o \in HostObjs : \A id \in SlotIds(heap, o) :
        LET s == Prop(heap, o, id)
            got == DispatchEx_InvokeEx(heap, o, id, DISPATCH_PROPERTYGET, NoArgs, S_OK)
        IN  (s.type = PROP_VARIANT /\ s.var.vt = VT_I4) =>
                got.hres = S_OK /\ got.retv = s.var /\ got.h = heap

ValueKeptBetweenPuts ==
    \A o \in Objs :
        (heap[o].alive /\ heap'[o].alive) =>
            \A id \in SlotIds(heap, o) :
                (Prop(heap, o, id).type = PROP_VARIANT /\ Prop(heap', o, id) # Prop(heap, o, id)) =>
                    \E dp \in {NoArgs} \cup {PutArgs(v) : v \in IntValues} :
                        heap' = DispatchEx_InvokeEx(heap, o, id, DISPATCH_PROPERTYPUT, dp, S_OK).h

C4_PutGetRoundTrip ==
    [](PutThenGet /\ GetReadsValue) /\ [][ValueKeptBetweenPuts]_vars

\* a name made with fdexNameEnsure, then put twice: the slot holds 7
C4_Witness ==
    \E o \in HostObjs : \E id \in SlotIds(heap, o) :
        /\ id >= 2
        /\ Prop(heap, o, id).name = nm_a
        /\ Prop(heap, o, id).type = PROP_VARIANT
        /\ Prop(heap, o, id).var = VInt(7)
        /\ budget = 0

\* C5 -- shadowing by a put through a ProtoRef: the slot becomes an own Value
\* slot holding v with flags exactly {PROPF_ENUM}, a get of it returns v, and
\* no slot of the prototype (nor of any other object) changes, so a get on
\* the prototype's slot that answered before the put answers the same after.
Answer(r) == <<r.hres, r.retv, r.calls>>

C5_ShadowingPut ==
    \A o \in HostObjs : \A id \in SlotIds(heap, o) : \A v \in IntValues :
        LET s == Prop(heap, o, id)
            P == heap[o].prototype
            put == DispatchEx_InvokeEx(heap, o, id, DISPATCH_PROPERTYPUT, PutArgs(v), S_OK)
            got == DispatchEx_InvokeEx(put.h, o, id, DISPATCH_PROPERTYGET, NoArgs, S_OK)
        IN  (s.type = PROP_PROTREF /\ Valid(heap, P) /\ s.ref < prop_cnt(heap, P)) =>
                /\ put.hres = S_OK
                /\ Prop(put.h, o, id) =
                        [name |-> s.name, type |-> PROP_VARIANT, flags |-> {PROPF_ENUM},
                         var |-> v, p |-> s.p, ref |-> s.ref]
                /\ got.hres = S_OK /\ got.retv = v
                /\ \A q \in Objs \ {o} : put.h[q] = heap[q]
                /\ LET before == DispatchEx_InvokeEx(heap, P, s.ref, DISPATCH_PROPERTYGET, NoArgs, S_OK)
                       after == DispatchEx_InvokeEx(put.h, P, s.ref, DISPATCH_PROPERTYGET, NoArgs, S_OK)
                   IN  before.hres # FAULT => Answer(after) = Answer(before)

\* o has shadowed with 5 a name its prototype still has its own member for
C5_Witness ==
    \E o \in HostObjs : \E id \in SlotIds(heap, o) :
        LET s == Prop(heap, o, id)
            P == heap[o].prototype
        IN  /\ id >= 2
            /\ s.type = PROP_VARIANT /\ s.var = VInt(5) /\ s.flags = {PROPF_ENUM}
            /\ Valid(heap, P)
            /\ s.ref \in SlotIds(heap, P)
            /\ Prop(heap, P, s.ref).name = s.name
            /\ Prop(heap, P, s.ref).type \in {PROP_BUILTIN, PROP_PROTREF}

\* C6 -- the tables of the ancestors of o under every call on o.
RECURSIVE Ancestors(_, _, _)
Ancestors(h, o, fuel) ==
    LET P == h[o].prototype
    IN  IF fuel = 0 \/ ~Valid(h, P) THEN {} ELSE {P} \cup Ancestors(h, P, fuel - 1)

\* the heaps the calls the host can make on o leave behind
HeapsAfterCallOn(o) ==
    {DispatchEx_GetDispID(heap, o, n, g, MEM_OK).h : n \in Names, g \in Grfdex}
    \cup {DispatchEx_InvokeEx(heap, o, id, f, NoArgs, S_OK).h :
            id \in Ids(o),
            f \in {DISPATCH_PROPERTYGET, DISPATCH_PROPERTYPUT, DISPATCH_METHOD, DISPATCH_CONSTRUCT}}
    \cup {DispatchEx_InvokeEx(heap, o, id, DISPATCH_PROPERTYPUT, PutArgs(v), S_OK).h :
            id \in Ids(o), v \in IntValues}
    \cup {DispatchEx_GetNextDispID(heap, o, {}, id, MEM_OK).h : id \in Ids(o)}

CacheOnly(before, after) ==
    /\ Len(after) >= Len(before)
    /\ \A i \in 1 .. Len(before) :
            \/ after[i] = before[i]
            \/ before[i].type = PROP_PROTREF /\ after[i] = [before[i] EXCEPT !.type = PROP_DELETED]
    /\ \A i \in Len(before) + 1 .. Len(after) : after[i].type \in {PROP_BUILTIN, PROP_PROTREF}

RECURSIVE EnumFrom(_, _, _, _)
\* [ids, hres]: the identifiers returned, and the HRESULT that ended the walk
EnumFrom(h, o, id, fuel) ==
    LET r == DispatchEx_GetNextDispID(h, o, {}, id, MEM_OK)
    IN  IF r.hres = S_OK /\ fuel > 0
        THEN LET rest == EnumFrom(r.h, o, r.pid, fuel - 1)
             IN  [ids |-> <<r.pid>> \o rest.ids, hres |-> rest.hres, h |-> rest.h]
        ELSE [ids |-> <<>>, hres |-> r.hres, h |-> r.h]

OwnEnumerable(h, o) ==
    {Prop(h, o, id).name : id \in {i \in SlotIds(h, o) :
        /\ Prop(h, o, i).name # NULLW
        /\ Prop(h, o, i).type \in {PROP_VARIANT, PROP_BUILTIN}
        /\ PROPF_ENUM \in Prop(h, o, i).flags}}

AllEnumerable(h, o) ==
    UNION {OwnEnumerable(h, a) : a \in {o} \cup Ancestors(h, o, NObj)}

C7_FullEnumeration ==
    \A o \in HostObjs :
        LET e == EnumFrom(heap, o, DISPID_STARTENUM, 8)
            nameAt(k) == Prop(e.h, o, e.ids[k]).name
        IN  /\ e.hres = S_FALSE
            /\ \A j, k \in 1 .. Len(e.ids) : j # k => nameAt(j) # nameAt(k)
            /\ {nameAt(k) : k \in 1 .. Len(e.ids)} = AllEnumerable(heap, o)
            /\ \A j, k \in 1 .. Len(e.ids) :
                    (j < k /\ nameAt(k) \in OwnEnumerable(heap, o)) =>
                        nameAt(j) \in OwnEnumerable(heap, o) /\ e.ids[j] < e.ids[k]

\* C8 -- a get, and a method invoke, of a ProtoRef slot whose target slot in
\* the prototype has become Deleted reports DISP_E_MEMBERNOTFOUND: not
\* E_FAIL, no stale value, no read outside the prototype's table.
StaleRef(o, id) ==
    LET s == Prop(heap, o, id)
        P == heap[o].prototype
    IN  /\ s.type = PROP_PROTREF
        /\ Valid(heap, P)
        /\ s.ref \in SlotIds(heap, P)
        /\ Prop(heap, P, s.ref).type = PROP_DELETED

C8_StaleRefReportsAbsence ==
    \A o \in HostObjs : \A id \in SlotIds(heap, o) :
        StaleRef(o, id) =>
            /\ DispatchEx_InvokeEx(heap, o, id, DISPATCH_PROPERTYGET, NoArgs, S_OK).hres
                    = DISP_E_MEMBERNOTFOUND
            /\ DispatchEx_InvokeEx(heap, o, id, DISPATCH_METHOD, NoArgs, S_OK).hres
                    = DISP_E_MEMBERNOTFOUND

\* the chain 3 -> 2 -> 1 and room for the calls that leave a ProtoRef of 3
\* pointing at a Deleted slot of 2
InitStale == InitGraph(Chain, StaleSteps)
SpecStale == InitStale /\ [][Next]_vars

\* C9 -- reference counting: once the host has released every reference it
\* took, no object is left; and a prototype of two live children is not
\* destroyed by a release that leaves one of the two alive.
AllReleasedAllDestroyed ==
    (\A o \in Objs : held[o] = 0) => (\A o \in Objs : ~heap[o].alive)

PrototypeOutlivesChild ==
    \A P \in Objs : \A o1 \in Objs : \A o2 \in Objs \ {o1} :
        (/\ heap[P].alive /\ heap[o1].alive /\ heap[o2].alive
         /\ heap[o1].prototype = P /\ heap[o2].prototype = P
         /\ heap'[o1].alive \/ heap'[o2].alive) =>
            heap'[P].alive

C9_ReferenceCounting ==
    []AllReleasedAllDestroyed /\ [][PrototypeOutlivesChild]_vars

\* C10 -- prototype validity: the prototype of every live object is a live
\* object whose ref counts the reference of each live object that has it as
\* prototype, besides the references the host holds.
Children(P) == {o \in Objs : heap[o].alive /\ heap[o].prototype = P}

C10_PrototypeValid ==
    \A o \in Objs :
        (heap[o].alive /\ heap[o].prototype # NULL) =>
            LET P == heap[o].prototype
            IN  /\ Valid(heap, P)
                /\ heap[P].ref >= 1
                /\ heap[P].ref >= held[P] + Cardinality(Children(P))

\* C11 -- slot-kind transitions: in every step each slot of an object that
\* lives on keeps its kind, or goes from Builtin or ProtoRef to Value (and
\* then the step is a put on that slot), or becomes Deleted; a Value slot
\* never becomes Builtin or ProtoRef, a Deleted slot never changes kind.
PutOn(o, id) ==
    \E dp \in {NoArgs} \cup {PutArgs(v) : v \in IntValues} :
        heap' = DispatchEx_InvokeEx(heap, o, id, DISPATCH_PROPERTYPUT, dp, S_OK).h

KindStep(o, id) ==
    LET was == Prop(heap, o, id).type
        is == Prop(heap', o, id).type
    IN  \/ is = was
        \/ was \in {PROP_BUILTIN, PROP_PROTREF} /\ is = PROP_VARIANT /\ PutOn(o, id)
        \/ was # PROP_DELETED /\ is = PROP_DELETED

C11_SlotKindTransitions ==
    [][\A o \in Objs :
          (heap[o].alive /\ heap'[o].alive) =>
              \A id \in SlotIds(heap, o) : KindStep(o, id)]_vars

\* the built-in 'greet' of a greeter has been shadowed by a put of 5
C11_Witness ==
    \E o \in Objs : \E id \in SlotIds(heap, o) :
        /\ heap[o].alive /\ heap[o].builtin_info = 2
        /\ Prop(heap, o, id).name = nm_greet
        /\ Prop(heap, o, id).type = PROP_VARIANT
        /\ Prop(heap, o, id).var = VInt(5)

\* C12 -- find_builtin_prop over every descriptor array sorted ascending by
\* name, the empty one included: a name of the array is answered with the
\* descriptor of that name, any other name with NULL.  The arrays are drawn
\* by InitSearch, the lookups made by FindBuiltin.
SearchNames == Names \cup {<<1, 1>>}

RECURSIVE SortedProps(_)
\* the descriptors of the names in S, ascending in strcmpW order
SortedProps(S) ==
    IF S = {}
    THEN <<>>
    ELSE LET least == CHOOSE n \in S : \A m \in S : strcmpW(n, m) <= 0
         IN  <<[name |-> least, flags |-> {}]>> \o SortedProps(S \ {least})

InitSearch ==
    /\ heap = [o \in Objs |-> FreeBlock]
    /\ held = [o \in Objs |-> 0]
    /\ ctx_ref = 0
    /\ fault = FALSE
    /\ budget = 0
    /\ \E S \in SUBSET SearchNames :
            /\ Cardinality(S) <= MaxProps
            /\ lookup = [props |-> SortedProps(S), name |-> NULLW, ret |-> NOPROP]
    /\ callers = NoCallers

FindBuiltin(name) ==
    /\ lookup' = [lookup EXCEPT !.name = name,
                                !.ret = bsearch(lookup.props, name, 0, Len(lookup.props) - 1)]
    /\ UNCHANGED <<heap, held, ctx_ref, fault, budget, callers>>

NextSearch == \E name \in SearchNames : FindBuiltin(name)

SpecSearch == InitSearch /\ [][NextSearch]_vars

C12_BinarySearch ==
    lookup.name # NULLW =>
        LET at == {i \in 1 .. Len(lookup.props) : lookup.props[i].name = lookup.name}
        IN  /\ at # {} => lookup.ret \in at
            /\ at = {} => lookup.ret = NOPROP

\* a hit on the last descriptor of a full array
C12_Witness ==
    /\ Len(lookup.props) = MaxProps
    /\ lookup.name = lookup.props[MaxProps].name
    /\ lookup.ret = MaxProps

\* C13 -- the state a successful create_dispex leaves: the new object has
\* ref 1 and exactly two slots; slot 0 has no name and is the class's
\* value_prop as a Builtin, or Deleted when the class has none; slot 1 is
\* named "prototype" and is a Value referring to the prototype, or Deleted
\* when none was given; the prototype's ref has grown by exactly 1.
CreateArgs ==
    {<<c, P>> : c \in {0} \cup Classes, P \in {NULL} \cup HostObjs}

Created(c, P, r) ==
    LET o == r.h[r.dispex]
        cls == IF c = 0 THEN 1 ELSE c
        slot0 == o.props[1]
        slot1 == o.props[2]
    IN  /\ r.dispex \in Objs /\ ~heap[r.dispex].alive
        /\ o.alive /\ o.ref = 1 /\ o.builtin_info = cls /\ o.prototype = P
        /\ Len(o.props) = 2
        /\ slot0.name = NULLW
        /\ IF builtin_infos[cls].value_prop.invoke
           THEN slot0.type = PROP_BUILTIN /\ slot0.p = 0
           ELSE slot0.type = PROP_DELETED
        /\ slot1.name = prototypeW
        /\ IF P # NULL
           THEN slot1.type = PROP_VARIANT /\ slot1.var = VDisp(P)
           ELSE slot1.type = PROP_DELETED
        /\ \A q \in Objs \ {r.dispex} :
                r.h[q] = IF q = P THEN [heap[q] EXCEPT !.ref = @ + 1] ELSE heap[q]
        /\ r.ctx = 1

C13_CreatePostState ==
    (\E a \in Objs : ~heap[a].alive) =>
        \A args \in CreateArgs :
            LET r == create_dispex(heap, args[1], args[2], MEM_OK)
            IN  r.hres = S_OK /\ Created(args[1], args[2], r)

\* the host has created an object and then a second one with the first as
\* its prototype
C13_Witness ==
    /\ budget = MaxSteps - 2
    /\ heap[1].alive /\ heap[2].alive /\ ~heap[3].alive
    /\ heap[2].prototype = 1 /\ heap[2].ref = 1 /\ heap[1].ref = 2
    /\ prop_cnt(heap, 2) = 2

\* C14 -- create_dispex fails atomically: when the allocation of the object,
\* of its slot array or of the name of slot 1 fails, the call returns
\* E_OUTOFMEMORY, no block stays allocated, the prototype's ref is what it
\* was, and no reference of the script context is dropped.
CreateFailures == {NO_OBJECT, NO_PROPS, NO_STRDUP}

C14_CreateFailsAtomically ==
    (\E a \in Objs : ~heap[a].alive) =>
        \A args \in CreateArgs : \A mem \in CreateFailures :
            LET r == create_dispex(heap, args[1], args[2], mem)
            IN  /\ r.hres = E_OUTOFMEMORY
                /\ \A q \in Objs : r.h[q].alive = heap[q].alive
                /\ \A q \in Objs : heap[q].alive => r.h[q].ref = heap[q].ref
                /\ r.ctx >= 0

\* C15 -- alloc_prop changes nothing when it runs out of memory: whenever it
\* returns NULL the table is exactly as before the call: same prop_cnt, same
\* buf_size (still the size of the array behind props), same slots.
AppendFailures == {NO_REALLOC, NO_STRDUP}

C15_AppendFailsAtomically ==
    \A o \in HostObjs : \A name \in Names : \A mem \in AppendFailures :
        LET a == alloc_prop(heap, o, name, PROP_VARIANT, {PROPF_ENUM}, mem)
        IN  a.ret = NOPROP =>
                /\ prop_cnt(a.h, o) = prop_cnt(heap, o)
                /\ a.h[o].buf_size = heap[o].buf_size
                /\ a.h[o].buf_size = a.h[o].alloc_size
                /\ a.h[o].props = heap[o].props

\* C16 -- an identifier that is negative, not below prop_cnt, or that names
\* a Deleted slot is answered DISP_E_MEMBERNOTFOUND by InvokeEx and by
\* jsdisp_call in every mode (get, put, method, construct), no descriptor is
\* invoked and no table changes; get_prop yields a slot exactly when
\* 0 <= id < prop_cnt and the slot is not Deleted.
Modes == {DISPATCH_PROPERTYGET, DISPATCH_PROPERTYPUT, DISPATCH_METHOD, DISPATCH_CONSTRUCT}

Usable(h, o, id) ==
    id \in SlotIds(h, o) /\ Prop(h, o, id).type # PROP_DELETED

NotFound(r) ==
    r.hres = DISP_E_MEMBERNOTFOUND /\ r.calls = <<>> /\ r.h = heap

C16_MemberNotFound ==
    \A o \in HostObjs : \A id \in -1 .. prop_cnt(heap, o) :
        /\ (get_prop(heap, o, id) # NOPROP) <=> Usable(heap, o, id)
        /\ Usable(heap, o, id) => get_prop(heap, o, id) = id
        /\ ~Usable(heap, o, id) =>
               \A wFlags \in Modes : \A dp \in {NoArgs} \cup {PutArgs(v) : v \in IntValues} :
                   /\ NotFound(DispatchEx_InvokeEx(heap, o, id, wFlags, dp, S_OK))
                   /\ NotFound(jsdisp_call(heap, o, id, wFlags, dp, S_OK, NObj))

\* the chain as it was made, after a call on it: no table has gained a slot,
\* slots 0 and 1 of the root are Deleted
C16_Witness ==
    /\ budget < MaxSteps
    /\ \A o \in Objs : o \in HostObjs /\ prop_cnt(heap, o) = 2
    /\ heap[3].prototype = 2 /\ heap[2].prototype = 1
    /\ Prop(heap, 3, 0).type = PROP_DELETED /\ Prop(heap, 3, 1).type = PROP_VARIANT
    /\ Prop(heap, 1, 1).type = PROP_DELETED /\ Prop(heap, 1, 1).name = prototypeW

\* C17 -- strict lookup: GetDispID without fdexNameEnsure, and GetIDsOfNames,
\* for a name that no table and no class of o and of its prototype chain
\* has, answer DISP_E_UNKNOWNNAME and append no slot to o or to an ancestor;
\* no lookup without fdexNameEnsure makes a Value slot, a lookup with it does.
RECURSIVE Nowhere(_, _, _, _)
\* n is in no table and in no class of o and of the objects of its prototype
\* chain, followed to its end
Nowhere(h, o, n, fuel) ==
    /\ Named(h, o, n) = {}
    /\ \A i \in 1 .. Len(builtin_infos[h[o].builtin_info].props) :
            builtin_infos[h[o].builtin_info].props[i].name # n
    /\ \/ h[o].prototype = NULL
       \/ fuel > 0 /\ Valid(h, h[o].prototype) /\ Nowhere(h, h[o].prototype, n, fuel - 1)

StrictGrfdex == { {}, {fdexNameCaseSensitive}, {fdexNameImplicit} }

\* the slots a call has appended to the tables
Appended(h2) ==
    UNION {{h2[q].props[i] : i \in Len(heap[q].props) + 1 .. Len(h2[q].props)} :
                q \in {x \in Objs : heap[x].alive /\ h2[x].alive}}

C17_StrictLookup ==
    \A o \in HostObjs : \A n \in Names :
        /\ \A g \in StrictGrfdex :
                LET r == DispatchEx_GetDispID(heap, o, n, g, MEM_OK)
                IN  /\ \A s \in Appended(r.h) : s.type # PROP_VARIANT
                    /\ Nowhere(heap, o, n, NObj) =>
                            r.hres = DISP_E_UNKNOWNNAME /\ r.h = heap
        /\ \A m \in Names :
                LET r == DispatchEx_GetIDsOfNames(heap, o, <<m, n>>, MEM_OK)
                IN  /\ \A s \in Appended(r.h) : s.type # PROP_VARIANT
                    /\ Nowhere(heap, o, n, NObj) =>
                            r.hres = DISP_E_UNKNOWNNAME /\ Appended(r.h) \subseteq
                                Appended(DispatchEx_GetDispID(heap, o, m, {}, MEM_OK).h)
        /\ Nowhere(heap, o, n, NObj) =>
                LET r == DispatchEx_GetDispID(heap, o, n, {fdexNameEnsure}, MEM_OK)
                IN  r.hres = S_OK =>
                        /\ r.pid = prop_cnt(heap, o)
                        /\ Prop(r.h, o, r.pid).type = PROP_VARIANT
                        /\ Prop(r.h, o, r.pid).name = n

\* a strict lookup has cached an inherited name in the tables of the chain;
\* the name a is still nowhere
C17_Witness ==
    /\ budget < MaxSteps
    /\ heap[3].alive /\ held[3] > 0
    /\ Valid(heap, heap[3].prototype)
    /\ Nowhere(heap, 3, nm_a, NObj)
    /\ \E id \in SlotIds(heap, 3) : Prop(heap, 3, id).type = PROP_PROTREF

\* C18 -- unsupported option flags: GetDispID and GetNextDispID called with
\* a flag the engine does not implement answer E_NOTIMPL and leave every
\* table as it was.
UnsupportedGrfdex ==
    { {fdexNameCaseInsensitive}, {fdexNameEnsure, fdexNameCaseInsensitive} }

C18_UnsupportedFlags ==
    \A o \in HostObjs : \A g \in UnsupportedGrfdex :
        /\ \A n \in Names :
                LET r == DispatchEx_GetDispID(heap, o, n, g, MEM_OK)
                IN  r.hres = E_NOTIMPL /\ r.h = heap
        /\ \A id \in Ids(o) :
                LET r == DispatchEx_GetNextDispID(heap, o, g, id, MEM_OK)
                IN  r.hres = E_NOTIMPL /\ r.h = heap

\* C19 -- this-binding on get: a get on a ProtoRef slot of o invokes the
\* accessor built-in reached in the prototype chain in read mode with
\* this = o, the object the get was requested on.
C19_GetBindsReceiver ==
    \A o \in HostObjs : \A id \in SlotIds(heap, o) :
        Prop(heap, o, id).type = PROP_PROTREF =>
            LET r == DispatchEx_InvokeEx(heap, o, id, DISPATCH_PROPERTYGET, NoArgs, S_OK)
            IN  \A k \in 1 .. Len(r.calls) :
                    r.calls[k].mode = DISPATCH_PROPERTYGET /\ r.calls[k].this = o

\* C20 -- this-binding on invoke: a method or construct invocation on a
\* ProtoRef slot of o hands this = o to what the chain of ProtoRef slots ends
\* in: to the built-in as its receiver, to the object a callable value refers
\* to as its DISPID_THIS argument.

\* the host has stored a callable object under the name a in the root of the
\* graph: GetDispID with fdexNameEnsure, then a put of the object
Lent(graph, callee) ==
    LET h0 == Build([o \in Objs |-> FreeBlock], graph)
        made == DispatchEx_GetDispID(h0, 1, nm_a, {fdexNameEnsure}, MEM_OK)
    IN  DispatchEx_InvokeEx(made.h, 1, made.pid, DISPATCH_PROPERTYPUT,
                            PutArgs(VDisp(callee)), S_OK).h

InitCall ==
    /\ \E lend \in {<<Chain, 1>>, <<Fan, 3>>} : heap = Lent(lend[1], lend[2])
    /\ held = [o \in Objs |-> 1]
    /\ ctx_ref = NObj
    /\ fault = FALSE
    /\ budget = MaxSteps
    /\ lookup = NoLookup
    /\ callers = NoCallers

SpecCall == InitCall /\ [][Next]_vars

ThisArgs(x) == DispParams(<<VDisp(x)>>, <<DISPID_THIS>>)

\* the value of the DISPID_THIS argument of dp
ThisOf(dp) ==
    dp.rgvarg[CHOOSE i \in 1 .. Len(dp.rgdispidNamedArgs) :
                    dp.rgdispidNamedArgs[i] = DISPID_THIS]

RECURSIVE Reached(_, _, _, _)
\* the slot the ProtoRef slots lead to from slot id of o
Reached(h, o, id, fuel) ==
    LET s == Prop(h, o, id)
        P == h[o].prototype
    IN  IF s.type = PROP_PROTREF /\ fuel > 0 /\ Valid(h, P) /\ s.ref \in SlotIds(h, P)
        THEN Reached(h, P, s.ref, fuel - 1)
        ELSE s

Callable(h, s) ==
    /\ s.type = PROP_VARIANT /\ s.var.vt = VT_DISPATCH
    /\ Valid(h, s.var.val)
    /\ get_prop(h, s.var.val, DISPID_VALUE) # NOPROP

InvokeBinds(dps, given(_, _)) ==
    \A o \in HostObjs : \A id \in SlotIds(heap, o) :
        Prop(heap, o, id).type = PROP_PROTREF =>
            \A wFlags \in {DISPATCH_METHOD, DISPATCH_CONSTRUCT} : \A dp \in dps :
                LET r == DispatchEx_InvokeEx(heap, o, id, wFlags, dp, S_OK)
                    end == Reached(heap, o, id, NObj)
                IN  /\ end.type = PROP_BUILTIN =>
                            \A k \in 1 .. Len(r.calls) : r.calls[k].this = o
                    /\ Callable(heap, end) =>
                            /\ Len(r.calls) = 1
                            /\ r.calls[1].owner = end.var.val
                            /\ HasNamed(r.calls[1].dp, DISPID_THIS)
                            /\ ThisOf(r.calls[1].dp) = given(dp, o)

HostArgs == {NoArgs} \cup {ThisArgs(x) : x \in HostObjs}

\* as stated: whatever the arguments, this = o
C20_InvokeBindsReceiver ==
    InvokeBinds(HostArgs, LAMBDA dp, o : VDisp(o))

\* a callable value is handed the DISPID_THIS argument the caller passed,
\* and o when the caller passed none
C20_InvokeBindsReceiverOrGiven ==
    InvokeBinds(HostArgs, LAMBDA dp, o : IF HasNamed(dp, DISPID_THIS) THEN ThisOf(dp)
                                                                       ELSE VDisp(o))

\* object 3 of the chain has ProtoRef slots for the inherited method greet
\* and for the callable value a, both two prototypes up
C20_Witness ==
    /\ heap[3].prototype = 2 /\ heap[2].prototype = 1 /\ held[3] > 0
    /\ \E id \in SlotIds(heap, 3) :
            /\ Prop(heap, 3, id).type = PROP_PROTREF
            /\ Reached(heap, 3, id, NObj).type = PROP_BUILTIN
            /\ Reached(heap, 3, id, NObj).name = nm_greet
    /\ \E id \in SlotIds(heap, 3) :
            /\ Prop(heap, 3, id).type = PROP_PROTREF
            /\ Callable(heap, Reached(heap, 3, id, NObj))

\* C21 -- concurrent reference counting: threads that each hold references
\* on one object call AddRef and Release in any interleaving; no increment
\* or decrement is lost, the destruction branch of Release is entered exactly
\* once, by the call that brought the count to zero, and no call touches the
\* object after that.
Shared == 1

InitRef ==
    /\ heap = create_dispex([o \in Objs |-> FreeBlock], 2, NULL, MEM_OK).h
    /\ held = [o \in Objs |-> 0]
    /\ ctx_ref = 1
    /\ fault = FALSE
    /\ budget = 0
    /\ lookup = NoLookup
    /\ callers = [t \in Threads |-> Idle(IF t = 1 THEN 1 ELSE 0)]

RECURSIVE Sum(_, _)
Sum(f(_), S) ==
    IF S = {} THEN 0
    ELSE LET x == CHOOSE y \in S : TRUE IN f(x) + Sum(f, S \ {x})

\* the references thread t accounts for: the ones it holds, the one its
\* Release is about to give up, the one its AddRef has taken for thread to
Owed(t) ==
    callers[t].own + (IF callers[t].pc \in {"Release", "AddRef_ret"} THEN 1 ELSE 0)

\* the thread is out of its call; freed counts the objects it has destroyed
Returned(c, destroyed) == [Idle(c.own) EXCEPT !.freed = c.freed + destroyed]

\* thread t, holding a reference, enters AddRef to take one more for thread u
EnterAddRef(t, u) ==
    /\ ~fault
    /\ callers[t].pc = "idle" /\ callers[t].own > 0
    /\ Sum(Owed, Threads) < MaxRefs
    /\ callers' = [callers EXCEPT ![t].pc = "AddRef", ![t].to = u,
                                  ![t].seen = heap[Shared].ref]
    /\ UNCHANGED <<heap, held, ctx_ref, fault, budget, lookup>>

\* LONG ref = InterlockedIncrement(&This->ref)
Increment(t) ==
    /\ ~fault
    /\ callers[t].pc = "AddRef"
    /\ IF ~heap[Shared].alive
       THEN fault' = TRUE /\ UNCHANGED <<heap, callers>>
       ELSE \E new \in {InterlockedIncrement(heap[Shared].ref, callers[t].seen)} :
               /\ heap' = [heap EXCEPT ![Shared].ref = new]
               /\ callers' = [callers EXCEPT ![t].pc = "AddRef_ret", ![t].ref = new]
               /\ UNCHANGED fault
    /\ UNCHANGED <<held, ctx_ref, budget, lookup>>

\* return ref: the reference is now thread to's
ReturnAddRef(t) ==
    /\ ~fault
    /\ callers[t].pc = "AddRef_ret"
    /\ \E u \in {callers[t].to} :
           callers' = [[callers EXCEPT ![t] = Returned(@, 0)] EXCEPT ![u].own = @ + 1]
    /\ UNCHANGED <<heap, held, ctx_ref, fault, budget, lookup>>

\* thread t gives up one of its references: it enters Release
EnterRelease(t) ==
    /\ ~fault
    /\ callers[t].pc = "idle" /\ callers[t].own > 0
    /\ callers' = [callers EXCEPT ![t].pc = "Release", ![t].own = @ - 1,
                                  ![t].seen = heap[Shared].ref]
    /\ UNCHANGED <<heap, held, ctx_ref, fault, budget, lookup>>

\* LONG ref = InterlockedDecrement(&This->ref)
Decrement(t) ==
    /\ ~fault
    /\ callers[t].pc = "Release"
    /\ IF ~heap[Shared].alive
       THEN fault' = TRUE /\ UNCHANGED <<heap, callers>>
       ELSE \E new \in {InterlockedDecrement(heap[Shared].ref, callers[t].seen)} :
               /\ heap' = [heap EXCEPT ![Shared].ref = new]
               /\ callers' = [callers EXCEPT ![t].pc = "Release_ret", ![t].ref = new]
               /\ UNCHANGED fault
    /\ UNCHANGED <<held, ctx_ref, budget, lookup>>

\* if(!ref) { ... heap_free(This); }  return ref
ReturnRelease(t) ==
    /\ ~fault
    /\ callers[t].pc = "Release_ret"
    /\ IF callers[t].ref # 0
       THEN /\ callers' = [callers EXCEPT ![t] = Returned(@, 0)]
            /\ UNCHANGED <<heap, ctx_ref, fault>>
       ELSE \E r \in {IF heap[Shared].alive THEN Destruct(heap, Shared)
                                            ELSE [h |-> heap, ok |-> FALSE]} :
               /\ heap' = r.h
               /\ fault' = ~r.ok
               /\ ctx_ref' = IF r.ok THEN ctx_ref - 1 ELSE ctx_ref
               /\ callers' = [callers EXCEPT ![t] = Returned(@, 1)]
    /\ UNCHANGED <<held, budget, lookup>>

NextRef ==
    \/ \E t \in Threads, u \in Threads : EnterAddRef(t, u)
    \/ \E t \in Threads : Increment(t)
    \/ \E t \in Threads : ReturnAddRef(t)
    \/ \E t \in Threads : EnterRelease(t)
    \/ \E t \in Threads : Decrement(t)
    \/ \E t \in Threads : ReturnRelease(t)

SpecRef == InitRef /\ [][NextRef]_vars

Freed(t) == callers[t].freed

C21_ConcurrentRefCount ==
    /\ ~fault
    /\ heap[Shared].alive => heap[Shared].ref = Sum(Owed, Threads)
    /\ ~heap[Shared].alive => Sum(Owed, Threads) = 0
    /\ Sum(Freed, Threads) = (IF heap[Shared].alive THEN 0 ELSE 1)
    /\ \A t \in Threads :
        /\ callers[t].pc \in {"AddRef", "Release"} => heap[Shared].alive
        /\ (callers[t].pc = "Release_ret" /\ callers[t].ref = 0) =>
                /\ heap[Shared].alive /\ heap[Shared].ref = 0
                /\ \A u \in Threads \ {t} :
                        /\ callers[u].own = 0
                        /\ callers[u].pc \in {"idle", "Release_ret"}
                        /\ callers[u].ref # 0 \/ callers[u].pc = "idle"

\* the object is gone, destroyed by a thread other than the one that made it
C21_Witness ==
    /\ ~heap[Shared].alive
    /\ \E t \in Threads \ {1} : callers[t].freed = 1

\* C22 -- name lookup skips tombstones: the slot GetDispID finds is never
\* Deleted, so every identifier GetDispID returns with fdexNameEnsure, for
\* any name ("prototype" on an object made without a prototype included),
\* is accepted by get_prop and can be written by a put.
C22_LookupSkipsDeleted ==
    \A o \in HostObjs : \A n \in Names :
        LET r == DispatchEx_GetDispID(heap, o, n, {fdexNameEnsure}, MEM_OK)
        IN  r.hres = S_OK =>
                /\ Prop(r.h, o, r.pid).type # PROP_DELETED
                /\ get_prop(r.h, o, r.pid) = r.pid
                /\ \A v \in IntValues :
                        DispatchEx_InvokeEx(r.h, o, r.pid, DISPATCH_PROPERTYPUT,
                                            PutArgs(v), S_OK).hres = S_OK

\* C23 -- creating lookup: find_prop_name_prot with alloc appends a new own
\* Value slot, empty and with flags exactly {PROPF_ENUM}, if and only if the
\* name is in no table and no class of the object and of its prototype
\* chain; otherwise it returns the slot of that name the object has or the
\* Builtin / ProtoRef slot it has just cached, and makes no Value slot.
C23_CreatingLookup ==
    \A o \in HostObjs : \A n \in Names :
        LET r == find_prop_name_prot(heap, o, n, TRUE, MEM_OK, NObj)
            new == prop_cnt(heap, o)
        IN  r.hres # FAULT =>
                /\ r.hres = S_OK
                /\ r.ret \in Named(r.h, o, n)
                /\ IF Nowhere(heap, o, n, NObj)
                   THEN /\ r.ret = new
                        /\ r.h[o].props =
                                Append(heap[o].props,
                                       [dispex_prop_t(n, PROP_VARIANT, {PROPF_ENUM})
                                            EXCEPT !.var = VEmpty])
                        /\ \A q \in Objs \ {o} : r.h[q] = heap[q]
                   ELSE /\ \A s \in Appended(r.h) : s.type \in {PROP_BUILTIN, PROP_PROTREF}
                        /\ r.ret >= new => Prop(r.h, o, r.ret).type \in {PROP_BUILTIN, PROP_PROTREF}
                        /\ r.ret < new => r.h[o] = heap[o]

\* a lookup with fdexNameEnsure has given object 3 of the chain an empty
\* Value slot for a name that nothing above it has
C23_Witness ==
    /\ heap[3].alive /\ Valid(heap, heap[3].prototype)
    /\ Nowhere(heap, heap[3].prototype, nm_a, NObj)
    /\ \E id \in SlotIds(heap, 3) :
            /\ id >= 2
            /\ Prop(heap, 3, id) = [dispex_prop_t(nm_a, PROP_VARIANT, {PROPF_ENUM})
                                        EXCEPT !.var = VEmpty]

\* C24 -- cache-on-miss is idempotent: a second GetDispID for the same name
\* on the same object, whatever the flags, answers as the first did and
\* appends no slot to any table; no table ever has two slots of one name; and
\* the ref of a ProtoRef slot a lookup appends is the identifier the lookup
\* of the name on the immediate prototype returns.
AnyGrfdex == StrictGrfdex \cup {{fdexNameEnsure}}

SecondLookupSame ==
    \A o \in HostObjs : \A n \in Names : \A g \in AnyGrfdex : \A g2 \in AnyGrfdex :
        LET first == DispatchEx_GetDispID(heap, o, n, g, MEM_OK)
            second == DispatchEx_GetDispID(first.h, o, n, g2, MEM_OK)
        IN  first.hres = S_OK =>
                second.hres = S_OK /\ second.pid = first.pid /\ second.h = first.h

OneSlotPerName ==
    \A o \in Objs : heap[o].alive =>
        \A n \in Names : Cardinality(Named(heap, o, n)) <= 1

NewProtoRefIndex ==
    \A o \in HostObjs : \A n \in Names : \A g \in AnyGrfdex :
        LET first == DispatchEx_GetDispID(heap, o, n, g, MEM_OK)
            P == heap[o].prototype
        IN  (/\ first.hres = S_OK
             /\ first.pid >= prop_cnt(heap, o)
             /\ Prop(first.h, o, first.pid).type = PROP_PROTREF) =>
                LET up == DispatchEx_GetDispID(heap, P, n, {}, MEM_OK)
                IN  /\ up.hres = S_OK
                    /\ Prop(first.h, o, first.pid).ref = up.pid
                    /\ Prop(first.h, P, up.pid).name = n

C24_LookupIdempotent ==
    SecondLookupSame /\ OneSlotPerName /\ NewProtoRefIndex

\* greet has been looked up twice on object 3 of the chain: one ProtoRef
\* slot in 3 and in 2, one Builtin slot in 1
C24_Witness ==
    /\ budget = MaxSteps - 2
    /\ heap[3].prototype = 2 /\ heap[2].prototype = 1
    /\ \A o \in Objs : heap[o].alive /\ prop_cnt(heap, o) = 3 /\ Prop(heap, o, 2).name = nm_greet
    /\ Prop(heap, 3, 2).type = PROP_PROTREF /\ Prop(heap, 3, 2).ref = 2
    /\ Prop(heap, 2, 2).type = PROP_PROTREF /\ Prop(heap, 1, 2).type = PROP_BUILTIN

\* C25 -- single enumeration step: GetNextDispID(id) returns the smallest
\* identifier above id whose slot has a name and whose effective flags hold
\* PROPF_ENUM, and answers S_FALSE with DISPID_STARTENUM only when the table
\* has no such slot; a Deleted slot right after the cursor is skipped.
EnumerableAfter(h, o, id) ==
    {i \in SlotIds(h, o) :
        /\ i > id
        /\ Prop(h, o, i).name # NULLW
        /\ PROPF_ENUM \in get_flags(h, o, i, NObj).flags}

C25_EnumerationStep ==
    \A o \in HostObjs : \A id \in -1 .. prop_cnt(heap, o) - 1 :
        LET r == DispatchEx_GetNextDispID(heap, o, {}, id, MEM_OK)
            rest == EnumerableAfter(r.h, o, id)
        IN  r.hres # FAULT =>
                IF rest = {}
                THEN r.hres = S_FALSE /\ r.pid = DISPID_STARTENUM
                ELSE r.hres = S_OK /\ r.pid \in rest /\ \A i \in rest : r.pid <= i

\* C26 -- fill_protrefs: only the named slots of the prototype are looked at
\* (the unnamed slot 0 is never compared or appended); every named slot of
\* the prototype without a local slot of its name gets one local ProtoRef;
\* no existing local slot changes; the ancestors are filled first; and an
\* error of any level of the recursion is returned.
RECURSIVE Filled(_, _, _)
\* every named slot of the prototype of o has a slot of its name in o, and
\* so on up the chain
Filled(h, o, fuel) ==
    LET P == h[o].prototype
    IN  (P # NULL /\ Valid(h, P) /\ fuel > 0) =>
            /\ \A i \in SlotIds(h, P) :
                    Prop(h, P, i).name # NULLW => Named(h, o, Prop(h, P, i).name) # {}
            /\ Filled(h, P, fuel - 1)

C26_FillProtrefs ==
    \A o \in HostObjs :
        (heap[o].prototype # NULL /\ Valid(heap, heap[o].prototype)) =>
            LET r == fill_protrefs(heap, o, MEM_OK, NObj)
                old == prop_cnt(heap, o)
            IN  /\ r.hres = S_OK
                /\ \A id \in SlotIds(heap, o) : Prop(r.h, o, id) = Prop(heap, o, id)
                /\ \A id \in old .. prop_cnt(r.h, o) - 1 :
                        /\ Prop(r.h, o, id).type = PROP_PROTREF
                        /\ Prop(r.h, o, id).name # NULLW
                        /\ Prop(r.h, heap[o].prototype, Prop(r.h, o, id).ref).name
                                = Prop(r.h, o, id).name
                /\ Filled(r.h, o, NObj)

\* C27 -- put asymmetry on built-ins: a put on a Builtin slot that is not
\* method-like invokes the descriptor in write mode, returns what it returns
\* and changes nothing in the table; a put of a value on a method-like
\* Builtin slot invokes no descriptor and leaves the slot a Value with flags
\* exactly {PROPF_ENUM} holding the value.
Results == {S_OK, E_FAIL}

C27_PutOnBuiltin ==
    \A o \in HostObjs : \A id \in SlotIds(heap, o) :
        LET s == Prop(heap, o, id)
        IN  s.type = PROP_BUILTIN =>
                IF PROPF_METHOD \notin s.flags
                THEN \A dp \in {NoArgs} \cup {PutArgs(v) : v \in IntValues} : \A br \in Results :
                        LET r == DispatchEx_InvokeEx(heap, o, id, DISPATCH_PROPERTYPUT, dp, br)
                        IN  /\ r.hres = br
                            /\ r.calls = <<Call(o, s.p, o, DISPATCH_PROPERTYPUT, dp)>>
                            /\ r.h = heap
                ELSE \A v \in IntValues : \A br \in Results :
                        LET r == DispatchEx_InvokeEx(heap, o, id, DISPATCH_PROPERTYPUT,
                                                     PutArgs(v), br)
                            now == Prop(r.h, o, id)
                        IN  /\ r.hres = S_OK
                            /\ \A k \in 1 .. Len(r.calls) : r.calls[k].p = NOPROP
                            /\ now.type = PROP_VARIANT /\ now.flags = {PROPF_ENUM}
                            /\ now.var = v /\ now.name = s.name
                            /\ \A q \in Objs \ {o} : r.h[q] = heap[q]

\* the greeter has its method greet replaced by the value 7 and still has
\* its accessor len as a Builtin slot
C27_Witness ==
    /\ heap[1].alive /\ heap[1].builtin_info = 2
    /\ \E id \in SlotIds(heap, 1) :
            /\ Prop(heap, 1, id).name = nm_greet
            /\ Prop(heap, 1, id).type = PROP_VARIANT
            /\ Prop(heap, 1, id).var = VInt(7)
    /\ \E id \in SlotIds(heap, 1) :
            Prop(heap, 1, id).name = nm_len /\ Prop(heap, 1, id).type = PROP_BUILTIN

\* C28 -- not invocable: a get on a slot that is, or leads through ProtoRef
\* slots to, a method-like Builtin fails and invokes no descriptor; a method
\* or construct invocation on a slot that is, or leads to, a Value that does
\* not refer to a callable object fails and calls nothing; no table changes.
RECURSIVE ReachedAt(_, _, _, _)
\* where the ProtoRef slots lead to from slot id of o: the owner and the
\* identifier of the slot Reached yields
ReachedAt(h, o, id, fuel) ==
    LET s == Prop(h, o, id)
        P == h[o].prototype
    IN  IF s.type = PROP_PROTREF /\ fuel > 0 /\ Valid(h, P) /\ s.ref \in SlotIds(h, P)
        THEN ReachedAt(h, P, s.ref, fuel - 1)
        ELSE [owner |-> o, id |-> id]

Refused(r) ==
    r.hres \in {E_NOTIMPL, E_FAIL, DISP_E_MEMBERNOTFOUND} /\ r.calls = <<>> /\ r.h = heap

C28_NotInvocable ==
    \A o \in HostObjs : \A id \in SlotIds(heap, o) :
        LET at == ReachedAt(heap, o, id, NObj)
            end == Prop(heap, at.owner, at.id)
        IN  /\ (/\ end.type = PROP_BUILTIN
                /\ PROPF_METHOD \in builtin_prop(heap[at.owner].builtin_info, end.p).flags) =>
                    LET r == DispatchEx_InvokeEx(heap, o, id, DISPATCH_PROPERTYGET, NoArgs, S_OK)
                    IN  r.hres = E_NOTIMPL /\ Refused(r)
            /\ (/\ end.type = PROP_VARIANT
                /\ ~Callable(heap, end)
                /\ end.var.vt = VT_DISPATCH => Valid(heap, end.var.val)) =>
                    \A wFlags \in {DISPATCH_METHOD, DISPATCH_CONSTRUCT} : \A dp \in HostArgs :
                        LET r == DispatchEx_InvokeEx(heap, o, id, wFlags, dp, S_OK)
                        IN  r.hres # E_NOTIMPL /\ Refused(r)

\* object 3 of the chain has a ProtoRef slot leading to the method greet and
\* an own Value slot that holds no object
C28_Witness ==
    /\ heap[3].prototype = 2 /\ heap[2].prototype = 1 /\ held[3] > 0
    /\ \E id \in SlotIds(heap, 3) :
            /\ Prop(heap, 3, id).type = PROP_PROTREF
            /\ Reached(heap, 3, id, NObj).type = PROP_BUILTIN
            /\ PROPF_METHOD \in Reached(heap, 3, id, NObj).flags
    /\ \E id \in SlotIds(heap, 3) :
            /\ id >= 2
            /\ Prop(heap, 3, id).type = PROP_VARIANT
            /\ Prop(heap, 3, id).var.vt # VT_DISPATCH

\* C29 -- not constructible: a DISPATCH_CONSTRUCT invocation on a slot that
\* is, or leads through ProtoRef slots to, a Builtin whose descriptor is
\* method-like is rejected with E_INVALIDARG and the descriptor is not
\* called; for every other Builtin, and in method mode, the descriptor is
\* called with the mode given.
C29_NotConstructible ==
    \A o \in HostObjs : \A id \in SlotIds(heap, o) :
        LET at == ReachedAt(heap, o, id, NObj)
            end == Prop(heap, at.owner, at.id)
        IN  end.type = PROP_BUILTIN =>
                \A wFlags \in {DISPATCH_METHOD, DISPATCH_CONSTRUCT} :
                    LET r == DispatchEx_InvokeEx(heap, o, id, wFlags, NoArgs, S_OK)
                        desc == builtin_prop(heap[at.owner].builtin_info, end.p)
                    IN  IF wFlags = DISPATCH_CONSTRUCT /\ PROPF_METHOD \in desc.flags
                        THEN r.hres = E_INVALIDARG /\ r.calls = <<>>
                        ELSE /\ r.hres = S_OK
                             /\ Len(r.calls) = 1
                             /\ r.calls[1].owner = at.owner /\ r.calls[1].p = end.p
                             /\ r.calls[1].mode = wFlags

\* C30 -- receiver splicing (set_this): when the caller's arguments name no
\* DISPID_THIS argument, the call delegated to a callable Value gets exactly
\* one argument more, leading, equal to the receiver and named DISPID_THIS,
\* followed by the caller's arguments and named-argument ids in their order;
\* when a DISPID_THIS argument is present the arguments are handed on as they
\* are.
RECURSIVE SeqsUpTo(_, _)
SeqsUpTo(S, n) ==
    IF n = 0 THEN {<<>>}
    ELSE LET shorter == SeqsUpTo(S, n - 1)
         IN  shorter \cup {Append(q, x) : q \in shorter, x \in S}

\* what a caller may pass: up to MaxArgs values, the first of them named
CallArgs ==
    {DispParams(a, n) :
        a \in SeqsUpTo(IntValues \cup {VDisp(1)}, MaxArgs),
        n \in {<<>>, <<DISPID_PROPERTYPUT>>, <<DISPID_THIS>>,
               <<DISPID_PROPERTYPUT, DISPID_THIS>>, <<DISPID_THIS, DISPID_PROPERTYPUT>>}}

WellFormed(dp) == Len(dp.rgdispidNamedArgs) <= Len(dp.rgvarg)

C30_ReceiverSplicing ==
    \A o \in HostObjs : \A id \in SlotIds(heap, o) :
        Callable(heap, Reached(heap, o, id, NObj)) =>
            \A wFlags \in {DISPATCH_METHOD, DISPATCH_CONSTRUCT} :
            \A dp \in {d \in CallArgs : WellFormed(d)} :
                LET r == DispatchEx_InvokeEx(heap, o, id, wFlags, dp, S_OK)
                    got == r.calls[1].dp
                IN  /\ Len(r.calls) = 1
                    /\ r.calls[1].mode = wFlags
                    /\ IF HasNamed(dp, DISPID_THIS)
                       THEN got = dp
                       ELSE /\ Len(got.rgvarg) = Len(dp.rgvarg) + 1
                            /\ Len(got.rgdispidNamedArgs) = Len(dp.rgdispidNamedArgs) + 1
                            /\ Head(got.rgvarg) = VDisp(o)
                            /\ Head(got.rgdispidNamedArgs) = DISPID_THIS
                            /\ Tail(got.rgvarg) = dp.rgvarg
                            /\ Tail(got.rgdispidNamedArgs) = dp.rgdispidNamedArgs

\* object 2 of the fan has a ProtoRef slot leading to the value of its
\* prototype that refers to the callable object 3
C30_Witness ==
    /\ heap[2].prototype = 1 /\ heap[3].prototype = 1 /\ held[2] > 0
    /\ \E id \in SlotIds(heap, 2) :
            /\ Prop(heap, 2, id).type = PROP_PROTREF
            /\ Callable(heap, Reached(heap, 2, id, NObj))
            /\ Reached(heap, 2, id, NObj).var = VDisp(3)

\* C31 -- effective flags (get_flags): for a Value or Builtin slot the result
\* is the slot's own flags; for a ProtoRef slot it is the flags of the slot
\* the references lead to in the chain; when the slot a ProtoRef refers to is
\* Deleted or out of range, that ProtoRef slot becomes Deleted in the same
\* call, the flags are empty and get_prop rejects its identifier afterwards.
Live == {o \in Objs : Valid(heap, o)}

\* get_prop of the prototype rejects what slot id of o refers to
RefRejected(h, o, id) ==
    LET s == Prop(h, o, id)
        P == h[o].prototype
    IN  /\ s.type = PROP_PROTREF
        /\ Valid(h, P)
        /\ \/ s.ref \notin SlotIds(h, P)
           \/ Prop(h, P, s.ref).type = PROP_DELETED

C31_EffectiveFlags ==
    \A o \in Live : \A id \in SlotIds(heap, o) :
        LET s == Prop(heap, o, id)
            g == get_flags(heap, o, id, NObj)
            end == ReachedAt(heap, o, id, NObj)
            last == Prop(heap, end.owner, end.id)
        IN  /\ s.type \in {PROP_VARIANT, PROP_BUILTIN} =>
                g.ok /\ g.flags = s.flags /\ g.h = heap
            /\ (s.type = PROP_PROTREF /\ last.type \in {PROP_VARIANT, PROP_BUILTIN}) =>
                g.ok /\ g.flags = last.flags /\ g.h = heap
            /\ RefRejected(heap, o, id) =>
                /\ g.ok /\ g.flags = {}
                /\ g.h = SetProp(heap, o, id, [s EXCEPT !.type = PROP_DELETED])
                /\ get_prop(g.h, o, id) = NOPROP

\* a held object has a ProtoRef whose target is rejected, which get_flags
\* turns into a Deleted slot
C31_Witness ==
    \E o \in HostObjs : \E id \in SlotIds(heap, o) :
        /\ RefRejected(heap, o, id)
        /\ get_prop(heap, o, id) = id
        /\ get_prop(get_flags(heap, o, id, NObj).h, o, id) = NOPROP

\* C32 -- ProtoRef validity: in every reachable state every ProtoRef slot
\* belongs to an object that has a prototype, its index r satisfies
\* 0 <= r < prop_cnt of that prototype, so that prototype->props + ref stays
\* inside the prototype's table, and slot r of the prototype carries the name
\* of the ProtoRef slot.
C32_ProtoRefValid ==
    \A o \in HostObjs : \A id \in SlotIds(heap, o) :
        LET s == Prop(heap, o, id)
            P == heap[o].prototype
        IN  s.type = PROP_PROTREF =>
                /\ P # NULL
                /\ Valid(heap, P)
                /\ s.ref \in SlotIds(heap, P)
                /\ Prop(heap, P, s.ref).name = s.name

\* C33 -- name uniqueness: no two slots of one object's table carry the same
\* non-NULL name, whatever their kinds; a slot is appended only under a name
\* that no slot of the table carried before the call.
UniqueNames(h, o) ==
    \A i, j \in SlotIds(h, o) :
        (i # j /\ Prop(h, o, i).name # NULLW) => Prop(h, o, i).name # Prop(h, o, j).name

AppendsFresh(h, h2, o) ==
    \A id \in SlotIds(h2, o) \ SlotIds(h, o) :
        \A old \in SlotIds(h, o) : Prop(h, o, old).name # Prop(h2, o, id).name

C33_NameUniqueness ==
    [][\A o \in Objs :
            heap'[o].alive =>
                /\ UniqueNames(heap', o)
                /\ heap[o].alive => AppendsFresh(heap, heap', o)]_vars

\* a held object with a cached ProtoRef and a Value of its own behind the
\* reserved slots, its prototype carrying the cached name too
C33_Witness ==
    \E o \in HostObjs : \E i, j \in SlotIds(heap, o) :
        /\ i > 1 /\ j > 1
        /\ Prop(heap, o, i).type = PROP_PROTREF
        /\ Prop(heap, o, j).type = PROP_VARIANT
        /\ Valid(heap, heap[o].prototype)
        /\ Named(heap, heap[o].prototype, Prop(heap, o, i).name) # {}

\* C34 -- acyclic chain and termination: the prototype field of an object is
\* set when it is created and never changes, every reachable prototype chain
\* is finite and acyclic, and the recursions over the chain end after at most
\* chain-depth nested calls.
RECURSIVE ChainEnds(_, _, _)
\* following prototype from o passes live objects only and arrives at NULL
\* within fuel steps
ChainEnds(h, o, fuel) ==
    \/ h[o].prototype = NULL
    \/ /\ fuel > 0
       /\ Valid(h, h[o].prototype)
       /\ ChainEnds(h, h[o].prototype, fuel - 1)

C34_AcyclicChain ==
    \A o \in HostObjs :
        /\ o \notin Ancestors(heap, o, NObj)
        /\ ChainEnds(heap, o, NObj - 1)

====
